---- MODULE Spec2Model ----
(***************************************************************************)
(* PortfolioAI front end: the Profile coordinator                          *)
(* (frontend/src/components/PortfolioViewer.js, function Profile), its     *)
(* child components ResumeUpload and ChatPortfolio, the draft store        *)
(* (localStorage) and the interview screen (MockInterviewer.jsx).          *)
(*                                                                         *)
(* The browser runs one event loop: every action below is one run of a     *)
(* handler from its start (or from the point where an awaited call         *)
(* returns) up to its next await or its end. An awaited backend call is a  *)
(* record in `pending`; the backend answers it in a later step.            *)
(***************************************************************************)
EXTENDS Naturals, Integers, Sequences, FiniteSets, TLC

\* ------------------------------------------------------------------ bounds
\* Slots for handler runs suspended at an await.
MaxPending == 2
\* Interview sessions the backend creates.
MaxSessions == 2
\* Answers sent to one chat intake.
MaxSends == 7
\* Characters of a work-experience answer given to the parser.
MaxLen == 4

\* ------------------------------------------------------- optional values
\* null / undefined / an absent localStorage key
Null == <<>>
Some(v) == <<v>>
Present(o) == o # Null
Get(o) == o[1]

\* ---------------------------------------------------------------- strings
\* A string the code takes apart (a text field, a chat answer) is the
\* sequence of its characters; '' is <<>>.
IsSpace(c) == c \in {" ", "\n", "\t"}

\* String.prototype.trim
RECURSIVE trim(_)
trim(s) ==
    IF s = <<>> THEN s
    ELSE IF IsSpace(Head(s)) THEN trim(Tail(s))
    ELSE IF IsSpace(s[Len(s)]) THEN trim(SubSeq(s, 1, Len(s) - 1))
    ELSE s

\* String.prototype.split with a one-character separator, or with a regular
\* expression that is a character class: D is the set of separating characters
RECURSIVE split(_, _)
split(s, D) ==
    IF \A i \in 1 .. Len(s) : s[i] \notin D
    THEN <<s>>
    ELSE LET p == CHOOSE i \in 1 .. Len(s) : s[i] \in D /\ \A j \in 1 .. i - 1 : s[j] \notin D
         IN <<SubSeq(s, 1, p - 1)>> \o split(SubSeq(s, p + 1, Len(s)), D)

\* item.split('|').map(p => p.trim())
parts(item) ==
    LET pieces == split(item, {"|"}) IN [i \in 1 .. Len(pieces) |-> trim(pieces[i])]

\* list[k] || '' for an array of strings (k counted from 0 in the code)
OrEmpty(list, k) == IF k + 1 <= Len(list) THEN list[k + 1] ELSE <<>>

\* --------------------------------------------------------------- domains
\* ids the backend hands out for resumes (uploads and chat profiles)
ResumeIds == {"r1", "r2"}
\* ids the backend hands out for job descriptions
JdIds == {"j1", "j2"}
\* the routes of App: Profile, MockInterviewer, and the four other screens
\* (resume optimizer, portfolio generator, cover letter writer, career guide)
Routes == {"/profile", "/mock-interviewer", "/other"}
\* what the user can have in a text field
Texts == {<<>>, <<"x">>}
\* how an awaited backend call ends
Outcomes == {"ok", "error"}

\* the five generation actions, as handleAction is called by the buttons
Actions == {"optimize", "portfolio", "cover-letter", "interview", "career-guide"}
\* the keys of actionLoading: the five of its initial value, and the two that
\* setActionLoading(prev => ({...prev, [action]: true})) adds
LoadingKeys == {"optimize", "portfolio", "coverLetter", "interview", "careerGuide",
                "cover-letter", "career-guide"}

EmptyJobDescription == [title |-> <<>>, content |-> <<>>]

\* "Engineer | Acme | 2019-2022 | Built things"
ExampleAnswer ==
    <<"E", "n", "g", "i", "n", "e", "e", "r", " ", "|", " ", "A", "c", "m",
      "e", " ", "|", " ", "2", "0", "1", "9", "-", "2", "0", "2", "2", " ",
      "|", " ", "B", "u", "i", "l", "t", " ", "t", "h", "i", "n", "g", "s">>
\* "Engineer", "Acme", "2019-2022", "Built things"
ExampleCompany == <<"E", "n", "g", "i", "n", "e", "e", "r">>
ExampleDesignation == <<"A", "c", "m", "e">>
ExampleDuration == <<"2", "0", "1", "9", "-", "2", "0", "2", "2">>
ExampleDescription ==
    <<"B", "u", "i", "l", "t", " ", "t", "h", "i", "n", "g", "s">>

\* what the user can type as one chat answer: nothing, a blank, and answers
\* with and without the separators the parsers look for
SampleAnswer == <<"a">>
ChatInputs == {<<>>, <<" ">>, SampleAnswer, <<"a", "|", " ", "b", ";", "c", ",", "d">>}

\* the strings of at most n characters of the alphabet A
RECURSIVE StringsUpTo(_, _)
StringsUpTo(A, n) ==
    IF n = 0 THEN {<<>>}
    ELSE LET shorter == StringsUpTo(A, n - 1) IN
         shorter \cup {Append(t, c) : t \in shorter, c \in A}

\* the work-experience answers the parser is given: ExampleAnswer and every
\* short string of a letter, a blank and the two separators that handleSend
\* accepts as an answer (ChatPortfolio.jsx:32)
WorkAnswers ==
    {ExampleAnswer} \cup {t \in StringsUpTo({"a", " ", "|", ";"}, MaxLen) : trim(t) # <<>>}

\* the skills answers the parser is given: the example "Python, Go\nRust"
\* and every short string of a letter, a blank, a comma and a newline that
\* handleSend accepts as an answer
ExampleSkills == <<"P", "y", "t", "h", "o", "n", ",", " ", "G", "o", "\n", "R", "u", "s", "t">>
SkillsAnswers ==
    {ExampleSkills} \cup {t \in StringsUpTo({"a", " ", ",", "\n"}, MaxLen) : trim(t) # <<>>}

\* ------------------------------------------------------------- variables
VARIABLES
    \* App: the route whose screen is shown
    route,
    \* Profile component
    mounted,            \* the Profile screen is rendered
    crashed,            \* a render threw and no error boundary caught it
    activeTab,          \* 0: ResumeUpload, 1: ChatPortfolio
    resumeData,         \* Null or Some([resumeId])
    chatData,           \* Null or Some([resumeId, data])
    jobDescription,     \* [title, content]
    jobDescriptionId,   \* Null or Some(id)
    lastUpdated,        \* Null or Some(time)
    actionLoading,      \* [LoadingKeys -> BOOLEAN]
    snackbar,           \* the message of the last notification ("" none)
    \* ResumeUpload component
    uploadLoading,
    \* localStorage
    store,
    \* backend (external): the latest resume and job description it holds
    srvResume,
    srvJd,
    \* handler runs suspended at an await
    pending,
    \* history: the job description as of the last edit, and whether the
    \* screen was mounted again after that edit
    draft,
    remounted,
    \* MockInterviewer component
    miMounted,          \* the interview screen is rendered
    interview,          \* Null or Some(session id): the session it shows
    miLoading,
    miError,            \* Null or Some(message)
    \* backend: the number of interview sessions created (their ids are
    \* 1, 2, ... in the order of creation)
    srvSessions,
    \* history: the session id the Profile interview action last published
    published,
    \* ChatPortfolio component
    messages,           \* the conversation: [sender, text]
    currentQuestion,    \* index into questions, from 0
    \* history: the records this ChatPortfolio has passed to onChatComplete
    emitted,
    uploadSnackbar,
    viewer,
    exportData,
    downloaded,
    \* what the last successful interview action did, in the order it did it
    steps,
    \* the chat that the backend drives (unnamed/part_003): its state,
    pcMessages, chatStarted, portfolioId, chatComplete, pcLoading, pcSnackbar,
    \* its outstanding call, Null or [endpoint, branch, portfolio_id],
    pcCall,
    \* the portfolio ids the backend has handed out, whether a reply has said
    \* that the chat is over, and how often onPortfolioCreated was called
    srvPortfolios, ended, refreshes,
    \* the answers of one interview session (MockInterviewer.handleSendMessage):
    \* the index of the question shown, from 0; the questions that have an
    \* answer; showAllQuestions, sending and error; the question_index of the
    \* outstanding answer call, or Null; and the question indices the backend
    \* has accepted an answer for, in the order of acceptance
    currentQuestionIndex, answered, showAllQuestions, sending, sendError, sendCall, accepted,
    \* interview.score, and the notification of the interview screen
    score, sendSnackbar,
    \* the work-experience parser on its own: its input and its result
    answer,
    parsed

profileVars == <<mounted, crashed, activeTab, resumeData, chatData, jobDescription,
                 jobDescriptionId, lastUpdated, actionLoading, snackbar,
                 uploadLoading>>
envVars == <<store, srvResume, srvJd, pending, draft, remounted>>
miVars == <<miMounted, interview, miLoading, miError, srvSessions, published>>
\* the two tab children: ChatPortfolio, and the notification of ResumeUpload
chatVars == <<messages, currentQuestion, emitted, uploadSnackbar>>
parseVars == <<answer, parsed>>
\* screens and functions modelled on their own
pcVars == <<pcMessages, chatStarted, portfolioId, chatComplete, pcLoading, pcSnackbar,
            pcCall, srvPortfolios, ended, refreshes>>
\* components modelled on their own
sessVars == <<currentQuestionIndex, answered, showAllQuestions, sending, sendError,
              sendCall, accepted, score, sendSnackbar>>
soloVars == <<pcVars, sessVars>>
auxVars == <<parseVars, viewer, exportData, downloaded, steps, soloVars>>
vars == <<route, profileVars, envVars, miVars, chatVars, auxVars>>

\* ---------------------------------------------------------- localStorage
\* A stored string is [fmt, val]: "json" JSON text of val, "raw" the string
\* val itself, "iso" an ISO date string of time val, "bad" text that is none
\* of these.
JSONstringify(v) == [fmt |-> "json", val |-> v]
\* JSON.parse throws a SyntaxError on anything but JSON text
JSONparseThrows(t) == t.fmt # "json"
JSONparse(t) == t.val
toISOString(d) == [fmt |-> "iso", val |-> d]
\* new Date(): the current time. Times are not told apart: nothing below compares
\* two of them.
NewDate == "now"
\* new Date(string): an Invalid Date unless the string is a date
InvalidDate == "Invalid Date"
NewDateFrom(t) == IF t.fmt = "iso" THEN t.val ELSE InvalidDate

STORAGE_KEYS == [RESUME_DATA |-> "profile_resume_data",
                 CHAT_DATA |-> "profile_chat_data",
                 JOB_DESCRIPTION |-> "profile_job_description",
                 JOB_DESCRIPTION_ID |-> "profile_job_description_id",
                 LAST_UPDATED |-> "profile_last_updated"]

EmptyStore == [profile_resume_data |-> Null,
               profile_chat_data |-> Null,
               profile_job_description |-> Null,
               profile_job_description_id |-> Null,
               profile_last_updated |-> Null]

getItem(s, key) == s[key]
setItem(s, key, text) == [s EXCEPT ![key] = Some(text)]
\* a removeItem that leaves the key in place
removeItem_Keep(s, key) == s

removeItem(s, key) == [s EXCEPT ![key] = Null]

\* --------------------------------------------------------------- pending
\* kind: "none" (free slot), "fetch", "upload", "chat", "saveJd", an action, or
\*        a run of the interview screen ("miStart", "miFetch")
\* stage: where the run is suspended
\* live:  the Profile instance that started the run is still rendered
\*        (a setState of an unmounted instance does nothing)
\* clive: the child component instance that started it is still rendered
\* cap:   what the run's closure captured of the other profile source
\* jd:    the jobDescription the run's closure captured
\* calls: backend calls the run has issued so far
\* id:    the interview session id the run asks for (0: none)
\* data:  Null, or the structured record handleChatComplete was called with
\* body:  Null, or the body of the POST /api/resumes/chat the run sent
NoReq == [kind |-> "none", stage |-> "", live |-> FALSE, clive |-> FALSE,
          cap |-> FALSE, jd |-> EmptyJobDescription, calls |-> 0, id |-> 0,
          data |-> Null, body |-> Null]
Slots == 1 .. MaxPending
FreeSlots == {s \in Slots : pending[s].kind = "none"}
HasFree == FreeSlots # {}
FirstFree == CHOOSE s \in FreeSlots : \A t \in FreeSlots : s <= t
Req(kind, stage) == [NoReq EXCEPT !.kind = kind, !.stage = stage, !.live = TRUE,
                                  !.clive = TRUE, !.calls = 1]
Suspend(r) == [pending EXCEPT ![FirstFree] = r]

\* ------------------------------------------------ state of other screens
\* (the interview screen, the chat intake and the answer parser, below)
otherVars == <<miVars, chatVars, auxVars>>

\* ------------------------------------------------- ChatPortfolio: its state
\* ChatPortfolio.jsx:16-23
questions == <<"What is your full name?",
               "What is your most recent job title?",
               "List your top skills.",
               "Describe your work experience.",
               "List your projects.",
               "List your education qualifications">>

\* ChatPortfolio.jsx:7-9
InitialMessages ==
    <<[sender |-> "ai",
       text |-> "Hi! I can help you build your portfolio. What is your full name?"]>>

\* The state of a ChatPortfolio that is not rendered: that of its next mount
\* (ChatPortfolio.jsx:7-13).
ChatUnrendered ==
    /\ messages' = InitialMessages
    /\ currentQuestion' = 0
    /\ emitted' = <<>>

\* ----------------------------------------------------- Profile: helpers
AllIdle == [k \in LoadingKeys |-> FALSE]

\* isProfileComplete without its job-description conjunct
isProfileComplete_SourceOnly == Present(resumeData) \/ Present(chatData)

\* PortfolioViewer.js:149
isProfileComplete ==
    (Present(resumeData) \/ Present(chatData)) /\ Present(jobDescriptionId)

\* A stored string is falsy only when empty.
Truthy(t) == ~(t.fmt = "raw" /\ t.val = "")
Saved(key) == Present(getItem(store, key)) /\ Truthy(Get(getItem(store, key)))

\* useState(() => { const saved = getItem(k); return saved ? JSON.parse(saved) : dflt })
LoadJSON(key, dflt) == IF Saved(key) THEN JSONparse(Get(getItem(store, key))) ELSE dflt
\* What the useState initialiser of each key yields (PortfolioViewer.js:107-137):
\* JSON.parse(saved) for the three JSON keys, saved itself for the id,
\* new Date(saved) for the time; null, or the empty job description, when
\* nothing (or '') is stored.
load(key) ==
    CASE key = STORAGE_KEYS.JOB_DESCRIPTION -> LoadJSON(key, EmptyJobDescription)
      [] key = STORAGE_KEYS.JOB_DESCRIPTION_ID ->
             IF Saved(key) THEN Some(Get(getItem(store, key)).val) ELSE Null
      [] key = STORAGE_KEYS.LAST_UPDATED ->
             IF Saved(key) THEN Some(NewDateFrom(Get(getItem(store, key)))) ELSE Null
      [] OTHER -> LoadJSON(key, Null)

\* one of the three JSON.parse initialisers throws
InitialiserThrows ==
    \E key \in {STORAGE_KEYS.RESUME_DATA, STORAGE_KEYS.CHAT_DATA,
                STORAGE_KEYS.JOB_DESCRIPTION} :
        Saved(key) /\ JSONparseThrows(Get(getItem(store, key)))

\* The state of an instance that is not rendered: nothing.
Unrendered ==
    /\ mounted' = FALSE
    /\ activeTab' = 0
    /\ resumeData' = Null
    /\ chatData' = Null
    /\ jobDescription' = EmptyJobDescription
    /\ jobDescriptionId' = Null
    /\ lastUpdated' = Null
    /\ actionLoading' = AllIdle
    /\ snackbar' = ""
    /\ uploadLoading' = FALSE
    /\ uploadSnackbar' = ""
    /\ ChatUnrendered

\* The runs of an instance that is gone keep going, with their setState dead.
Detached(p) == [s \in Slots |-> [p[s] EXCEPT !.live = FALSE, !.clive = FALSE]]

\* setState of the instance that started run r
SetIfLive(r, new, old) == IF r.live THEN new ELSE old

\* ------------------------------------------------------- Profile: mount
\* PortfolioViewer.js:104-146 (the useState initialisers) and 152-194 (the
\* effect: fetchLatestData up to its first await)
Mount ==
    /\ route = "/profile"
    /\ ~mounted /\ ~crashed
    /\ IF InitialiserThrows
       THEN /\ crashed' = TRUE
            /\ UNCHANGED <<mounted, activeTab, resumeData, chatData, jobDescription,
                           jobDescriptionId, lastUpdated, actionLoading, snackbar,
                           uploadLoading, pending, remounted>>
       ELSE /\ HasFree
            /\ mounted' = TRUE
            /\ activeTab' = 0
            /\ resumeData' = load(STORAGE_KEYS.RESUME_DATA)
            /\ chatData' = load(STORAGE_KEYS.CHAT_DATA)
            /\ jobDescription' = load(STORAGE_KEYS.JOB_DESCRIPTION)
            /\ jobDescriptionId' = load(STORAGE_KEYS.JOB_DESCRIPTION_ID)
            /\ lastUpdated' = load(STORAGE_KEYS.LAST_UPDATED)
            /\ actionLoading' = AllIdle
            /\ snackbar' = ""
            /\ uploadLoading' = FALSE
            /\ pending' = Suspend(Req("fetch", "resume"))
            /\ remounted' = TRUE
            /\ UNCHANGED crashed
    /\ UNCHANGED <<route, store, srvResume, srvJd, draft>>
    /\ UNCHANGED otherVars

\* GET /api/resumes/{userId}/latest returns: PortfolioViewer.js:156-168
FetchResumeResponse(s, outcome) ==
    LET r == pending[s]
        rd == [resumeId |-> Get(srvResume)]
    IN
    /\ r.kind = "fetch" /\ r.stage = "resume"
    /\ IF outcome = "ok"
       THEN /\ IF Present(srvResume)
               THEN /\ resumeData' = SetIfLive(r, Some(rd), resumeData)
                    /\ store' = setItem(store, STORAGE_KEYS.RESUME_DATA, JSONstringify(Some(rd)))
               ELSE UNCHANGED <<resumeData, store>>
            /\ pending' = [pending EXCEPT ![s].stage = "jd", ![s].calls = 2]
       ELSE \* the catch: logged, nothing shown
            /\ pending' = [pending EXCEPT ![s] = NoReq]
            /\ UNCHANGED <<resumeData, store>>
    /\ UNCHANGED <<mounted, crashed, activeTab, chatData, jobDescription, jobDescriptionId,
                   lastUpdated, actionLoading, snackbar, uploadLoading>>
    /\ UNCHANGED <<route, srvResume, srvJd, draft, remounted>>
    /\ UNCHANGED otherVars

\* GET /api/job-descriptions/{userId}/latest returns: PortfolioViewer.js:168-190
FetchJdResponse(s, outcome) ==
    LET r == pending[s]
        jd == [title |-> Get(srvJd).title, content |-> Get(srvJd).content]
        s1 == IF Present(srvJd)
              THEN setItem(setItem(store, STORAGE_KEYS.JOB_DESCRIPTION, JSONstringify(jd)),
                           STORAGE_KEYS.JOB_DESCRIPTION_ID,
                           [fmt |-> "raw", val |-> Get(srvJd).id])
              ELSE store
    IN
    /\ r.kind = "fetch" /\ r.stage = "jd"
    /\ IF outcome = "ok"
       THEN /\ IF Present(srvJd)
               THEN /\ jobDescription' = SetIfLive(r, jd, jobDescription)
                    /\ jobDescriptionId' = SetIfLive(r, Some(Get(srvJd).id), jobDescriptionId)
               ELSE UNCHANGED <<jobDescription, jobDescriptionId>>
            /\ lastUpdated' = SetIfLive(r, Some(NewDate), lastUpdated)
            /\ store' = setItem(s1, STORAGE_KEYS.LAST_UPDATED, toISOString(NewDate))
       ELSE UNCHANGED <<jobDescription, jobDescriptionId, lastUpdated, store>>
    /\ pending' = [pending EXCEPT ![s] = NoReq]
    /\ UNCHANGED <<mounted, crashed, activeTab, resumeData, chatData, actionLoading,
                   snackbar, uploadLoading>>
    /\ UNCHANGED <<route, srvResume, srvJd, draft, remounted>>
    /\ UNCHANGED otherVars

\* PortfolioViewer.js:197-199
handleTabChange(newValue) ==
    /\ mounted
    /\ newValue # activeTab
    /\ activeTab' = newValue
    \* the other child component is unmounted; its runs go on
    /\ uploadLoading' = FALSE
    /\ uploadSnackbar' = ""
    /\ pending' = [s \in Slots |-> [pending[s] EXCEPT !.clive = FALSE]]
    /\ UNCHANGED <<mounted, crashed, resumeData, chatData, jobDescription,
                   jobDescriptionId, lastUpdated, actionLoading, snackbar>>
    /\ ChatUnrendered
    /\ UNCHANGED <<route, store, srvResume, srvJd, draft, remounted>>
    /\ UNCHANGED <<miVars, auxVars>>

\* ------------------------------------------------- Profile: resume upload
\* ResumeUpload.handleSubmit up to its await (unnamed/part_004:30-69), with
\* the form holding file (one is selected or not) and title. handleSubmit
\* holds the onResumeUploaded of the render it was created in: cap is that
\* render's chatData.
handleSubmit(file, title) ==
    /\ mounted /\ activeTab = 0
    /\ IF ~file \/ title = <<>>
       THEN /\ uploadSnackbar' = "Please select a file and enter a name."
            /\ UNCHANGED <<uploadLoading, pending>>
       ELSE /\ HasFree
            /\ uploadLoading' = TRUE
            /\ pending' = Suspend([Req("upload", "post") EXCEPT
                                       !.cap = Present(chatData),
                                       !.data = Some([file |-> file, title |-> title])])
            /\ UNCHANGED uploadSnackbar
    /\ UNCHANGED <<route, mounted, crashed, activeTab, resumeData, chatData, jobDescription,
                   jobDescriptionId, lastUpdated, actionLoading, snackbar>>
    /\ UNCHANGED <<store, srvResume, srvJd, draft, remounted>>
    /\ UNCHANGED <<miVars, auxVars, messages, currentQuestion, emitted>>

\* The Upload Resume button: disabled without a file, without a name that
\* is more than spaces and while loading (unnamed/part_004:156).
StartUpload ==
    /\ ~uploadLoading
    /\ \E title \in Texts : trim(title) # <<>> /\ handleSubmit(TRUE, title)

\* PortfolioViewer.js:232-268, on the state st = <<resumeData, chatData,
\* lastUpdated, snackbar, store>>, for run r answered with resume id rid
handleResumeUploaded(r, rid, st) ==
    LET updatedData == [resumeId |-> rid]
        s1 == setItem(st[5], STORAGE_KEYS.RESUME_DATA, JSONstringify(Some(updatedData)))
        s2 == setItem(s1, STORAGE_KEYS.LAST_UPDATED, toISOString(NewDate))
    IN <<SetIfLive(r, Some(updatedData), st[1]),
         IF r.cap THEN SetIfLive(r, Null, st[2]) ELSE st[2],
         SetIfLive(r, Some(NewDate), st[3]),
         SetIfLive(r, "Resume uploaded and saved successfully!", st[4]),
         IF r.cap THEN removeItem(s2, STORAGE_KEYS.CHAT_DATA) ELSE s2>>

\* POST /api/portfolios/resume returns: unnamed/part_004:71-94
UploadResponse(s, outcome, rid) ==
    LET r == pending[s]
        st == handleResumeUploaded(r, rid, <<resumeData, chatData, lastUpdated, snackbar, store>>)
    IN
    /\ r.kind = "upload"
    /\ IF outcome = "ok"
       THEN /\ srvResume' = Some(rid)
            /\ resumeData' = st[1]
            /\ chatData' = st[2]
            /\ lastUpdated' = st[3]
            /\ snackbar' = st[4]
            /\ store' = st[5]
       ELSE UNCHANGED <<srvResume, resumeData, chatData, lastUpdated, snackbar, store>>
    /\ uploadLoading' = IF r.clive THEN FALSE ELSE uploadLoading
    /\ uploadSnackbar' = IF ~r.clive THEN uploadSnackbar
                         ELSE IF outcome = "ok" THEN "Resume uploaded successfully!"
                         ELSE "Error uploading resume. Please try again."
    /\ pending' = [pending EXCEPT ![s] = NoReq]
    /\ UNCHANGED <<route, mounted, crashed, activeTab, jobDescription, jobDescriptionId,
                   actionLoading>>
    /\ UNCHANGED <<srvJd, draft, remounted>>
    /\ UNCHANGED <<miVars, auxVars, messages, currentQuestion, emitted>>

\* ------------------------------------------------ Profile: chat completion
\* data.name of a record: Null (undefined) when data has no such property
Prop(data, name) == IF name \in DOMAIN data THEN Some(data[name]) ELSE Null

\* The body of the POST: PortfolioViewer.js:273-277. An absent or empty
\* data.title is replaced by 'Chat Profile'.
ChatBody(data) ==
    [content |-> Prop(data, "content"),
     title |-> IF Prop(data, "title") \in {Null, Some(<<>>)}
               THEN "Chat Profile" ELSE Get(Prop(data, "title"))]

\* handleChatComplete(data) up to its await (PortfolioViewer.js:271-277): the
\* POST of the chat profile. cap is the resumeData of the render that passed
\* the handler down to ChatPortfolio.
handleChatComplete(data) ==
    /\ HasFree
    /\ pending' = Suspend([Req("chat", "post") EXCEPT !.cap = Present(resumeData),
                                                      !.data = Some(data),
                                                      !.body = Some(ChatBody(data))])

\* ------------------------------------------------- ChatPortfolio: handleSend
\* the item => {...} of the Work Experience map: ChatPortfolio.jsx:65-73
WorkEntry_Swapped(item) ==
    [Company |-> OrEmpty(parts(item), 1),
     Designation |-> OrEmpty(parts(item), 0),
     Duration |-> OrEmpty(parts(item), 2),
     Description |-> OrEmpty(parts(item), 3)]

WorkEntry(item) ==
    [Company |-> OrEmpty(parts(item), 0),
     Designation |-> OrEmpty(parts(item), 1),
     Duration |-> OrEmpty(parts(item), 2),
     Description |-> OrEmpty(parts(item), 3)]

\* Parse Work Experience: ChatPortfolio.jsx:57, 63-75
WorkExperience(a) ==
    LET items == split(a, {";"}) IN
    IF a # <<>> THEN [i \in 1 .. Len(items) |-> WorkEntry(items[i])] ELSE <<>>

\* Skills that splits on commas only
Skills_CommaOnly(a) ==
    LET items == split(a, {","}) IN
    IF a # <<>>
    THEN SelectSeq([i \in 1 .. Len(items) |-> trim(items[i])], LAMBDA t : t # <<>>)
    ELSE <<>>

\* Parse Skills: ChatPortfolio.jsx:58, 77-80
Skills(a) ==
    LET items == split(a, {",", "\n"}) IN
    IF a # <<>>
    THEN SelectSeq([i \in 1 .. Len(items) |-> trim(items[i])], LAMBDA t : t # <<>>)
    ELSE <<>>

\* ChatPortfolio.jsx:84-90
ProjectEntry(item) ==
    [Name |-> OrEmpty(parts(item), 0),
     Description |-> OrEmpty(parts(item), 1)]

\* Parse Projects: ChatPortfolio.jsx:59, 82-92
Projects(a) ==
    LET items == split(a, {";"}) IN
    IF a # <<>> THEN [i \in 1 .. Len(items) |-> ProjectEntry(items[i])] ELSE <<>>

\* ChatPortfolio.jsx:96-104
EducationEntry(item) ==
    [Degree |-> OrEmpty(parts(item), 0),
     Institution |-> OrEmpty(parts(item), 1),
     Board |-> OrEmpty(parts(item), 2),
     Description |-> OrEmpty(parts(item), 3)]

\* Parse Education: ChatPortfolio.jsx:60, 94-106
Education(a) ==
    LET items == split(a, {";"}) IN
    IF a # <<>> THEN [i \in 1 .. Len(items) |-> EducationEntry(items[i])] ELSE <<>>

\* the keys of structuredData: ChatPortfolio.jsx:54-61
StructuredFields == {"Name", "About Me", "Work Experience", "Skills", "Projects", "Education"}

\* structuredData of the answers (answers[k] of the code is OrEmpty(answers, k)):
\* ChatPortfolio.jsx:54-106
structuredData(answers) ==
    [f \in StructuredFields |->
        CASE f = "Name" -> OrEmpty(answers, 0)
          [] f = "About Me" -> OrEmpty(answers, 0)
          [] f = "Work Experience" -> WorkExperience(OrEmpty(answers, 1))
          [] f = "Skills" -> Skills(OrEmpty(answers, 2))
          [] f = "Projects" -> Projects(OrEmpty(answers, 3))
          [] f = "Education" -> Education(OrEmpty(answers, 4))]

\* messages.filter(msg => msg.sender === 'user').map(msg => msg.text):
\* ChatPortfolio.jsx:40-42
UserAnswers(msgs) ==
    LET user == SelectSeq(msgs, LAMBDA m : m.sender = "user") IN
    [i \in 1 .. Len(user) |-> user[i].text]

\* currentQuestion === questions.length - 2
LastQuestion_OneEarly == currentQuestion = Len(questions) - 2

\* currentQuestion === questions.length - 1: ChatPortfolio.jsx:46
LastQuestion == currentQuestion = Len(questions) - 1

\* handleSend with the text field holding input: ChatPortfolio.jsx:31-128.
\* It has no await: one run is one step, and loading is false again at its
\* end (36, 126). On the last question it calls onChatComplete, which is
\* Profile's handleChatComplete (PortfolioViewer.js:563).
handleSend(input) ==
    LET userMsg == [sender |-> "user", text |-> input]
        answers == Append(UserAnswers(messages), input)
    IN
    /\ mounted /\ activeTab = 1
    /\ currentQuestion # Len(questions)
    /\ Len(UserAnswers(messages)) < MaxSends
    /\ IF trim(input) = <<>>
       THEN UNCHANGED <<messages, currentQuestion, emitted, pending>>
       ELSE IF LastQuestion
       THEN /\ messages' = messages \o
                   <<userMsg,
                     [sender |-> "ai",
                      text |-> "Thanks for your inputs. Saving your profile information."]>>
            /\ emitted' = Append(emitted, structuredData(answers))
            /\ handleChatComplete(structuredData(answers))
            /\ UNCHANGED currentQuestion
       ELSE /\ currentQuestion' = currentQuestion + 1
            /\ messages' = messages \o
                   <<userMsg, [sender |-> "ai", text |-> questions[currentQuestion + 2]]>>
            /\ UNCHANGED <<emitted, pending>>
    /\ UNCHANGED <<route, profileVars>>
    /\ UNCHANGED <<store, srvResume, srvJd, draft, remounted>>
    /\ UNCHANGED <<miVars, auxVars, uploadSnackbar>>

\* ChatResponse that goes on as if the call had succeeded whatever came back
ChatResponse_IgnoreFailure(s, outcome, rid) ==
    LET r == pending[s]
        updatedData == [resumeId |-> rid, data |-> Get(r.data)]
        s1 == setItem(store, STORAGE_KEYS.CHAT_DATA, JSONstringify(Some(updatedData)))
        s2 == setItem(s1, STORAGE_KEYS.LAST_UPDATED, toISOString(NewDate))
    IN
    /\ r.kind = "chat"
    /\ IF outcome \in Outcomes
       THEN /\ srvResume' = Some(rid)
            /\ chatData' = SetIfLive(r, Some(updatedData), chatData)
            /\ lastUpdated' = SetIfLive(r, Some(NewDate), lastUpdated)
            /\ resumeData' = IF r.cap THEN SetIfLive(r, Null, resumeData) ELSE resumeData
            /\ store' = IF r.cap THEN removeItem(s2, STORAGE_KEYS.RESUME_DATA) ELSE s2
            /\ snackbar' = SetIfLive(r, "Profile information saved successfully!", snackbar)
       ELSE /\ snackbar' = SetIfLive(r, "Error saving profile information. Please try again.",
                                     snackbar)
            /\ UNCHANGED <<srvResume, chatData, lastUpdated, resumeData, store>>
    /\ pending' = [pending EXCEPT ![s] = NoReq]
    /\ UNCHANGED <<route, mounted, crashed, activeTab, jobDescription, jobDescriptionId,
                   actionLoading, uploadLoading>>
    /\ UNCHANGED <<srvJd, draft, remounted>>
    /\ UNCHANGED otherVars

\* POST /api/resumes/chat returns: PortfolioViewer.js:279-311
ChatResponse(s, outcome, rid) ==
    LET r == pending[s]
        updatedData == [resumeId |-> rid, data |-> Get(r.data)]
        s1 == setItem(store, STORAGE_KEYS.CHAT_DATA, JSONstringify(Some(updatedData)))
        s2 == setItem(s1, STORAGE_KEYS.LAST_UPDATED, toISOString(NewDate))
    IN
    /\ r.kind = "chat"
    /\ IF outcome = "ok"
       THEN /\ srvResume' = Some(rid)
            /\ chatData' = SetIfLive(r, Some(updatedData), chatData)
            /\ lastUpdated' = SetIfLive(r, Some(NewDate), lastUpdated)
            /\ resumeData' = IF r.cap THEN SetIfLive(r, Null, resumeData) ELSE resumeData
            /\ store' = IF r.cap THEN removeItem(s2, STORAGE_KEYS.RESUME_DATA) ELSE s2
            /\ snackbar' = SetIfLive(r, "Profile information saved successfully!", snackbar)
       ELSE /\ snackbar' = SetIfLive(r, "Error saving profile information. Please try again.",
                                     snackbar)
            /\ UNCHANGED <<srvResume, chatData, lastUpdated, resumeData, store>>
    /\ pending' = [pending EXCEPT ![s] = NoReq]
    /\ UNCHANGED <<route, mounted, crashed, activeTab, jobDescription, jobDescriptionId,
                   actionLoading, uploadLoading>>
    /\ UNCHANGED <<srvJd, draft, remounted>>
    /\ UNCHANGED otherVars

\* ------------------------------------------------ Profile: job description
\* PortfolioViewer.js:315-322
handleJobDescriptionChange(field, value) ==
    LET newJobDescription == [jobDescription EXCEPT ![field] = value] IN
    /\ mounted
    /\ value # jobDescription[field]
    /\ jobDescription' = newJobDescription
    /\ store' = setItem(store, STORAGE_KEYS.JOB_DESCRIPTION, JSONstringify(newJobDescription))
    /\ draft' = Some(newJobDescription)
    /\ remounted' = FALSE
    /\ UNCHANGED <<route, mounted, crashed, activeTab, resumeData, chatData, jobDescriptionId,
                   lastUpdated, actionLoading, snackbar, uploadLoading>>
    /\ UNCHANGED <<srvResume, srvJd, pending>>
    /\ UNCHANGED otherVars

\* the Save button's condition without its trim()
SaveDisabled_Untrimmed == jobDescription.title = <<>> \/ jobDescription.content = <<>>

\* PortfolioViewer.js:604 (loading is never set)
SaveDisabled == trim(jobDescription.title) = <<>> \/ trim(jobDescription.content) = <<>>

\* handleSaveJobDescription up to its await: PortfolioViewer.js:325-332
handleSaveJobDescription ==
    /\ mounted
    /\ ~SaveDisabled
    /\ HasFree
    /\ pending' = Suspend([Req("saveJd", "post") EXCEPT !.jd = jobDescription])
    /\ UNCHANGED <<route, profileVars>>
    /\ UNCHANGED <<store, srvResume, srvJd, draft, remounted>>
    /\ UNCHANGED otherVars

\* POST /api/job-descriptions returns, with an id or without one:
\* PortfolioViewer.js:335-364
SaveJdResponse(s, outcome, jdId) ==
    LET r == pending[s]
        s1 == setItem(store, STORAGE_KEYS.JOB_DESCRIPTION_ID, [fmt |-> "raw", val |-> Get(jdId)])
        s2 == setItem(s1, STORAGE_KEYS.JOB_DESCRIPTION, JSONstringify(r.jd))
        s3 == setItem(s2, STORAGE_KEYS.LAST_UPDATED, toISOString(NewDate))
    IN
    /\ r.kind = "saveJd"
    /\ IF outcome = "ok" /\ Present(jdId)
       THEN /\ srvJd' = Some([id |-> Get(jdId), title |-> r.jd.title, content |-> r.jd.content])
            /\ jobDescriptionId' = SetIfLive(r, jdId, jobDescriptionId)
            /\ lastUpdated' = SetIfLive(r, Some(NewDate), lastUpdated)
            /\ store' = s3
            /\ snackbar' = SetIfLive(r, "Job description saved successfully!", snackbar)
       ELSE \* no id: the throw of line 338; an error: the catch
            /\ snackbar' = SetIfLive(r, "Error saving job description. Please try again.",
                                     snackbar)
            /\ UNCHANGED <<srvJd, jobDescriptionId, lastUpdated, store>>
    /\ pending' = [pending EXCEPT ![s] = NoReq]
    /\ UNCHANGED <<route, mounted, crashed, activeTab, resumeData, chatData, jobDescription,
                   actionLoading, uploadLoading>>
    /\ UNCHANGED <<srvResume, draft, remounted>>
    /\ UNCHANGED otherVars

\* PortfolioViewer.js:368-378; the Clear button is rendered when the title
\* or the content is not empty (609)
handleClearJobDescription ==
    /\ mounted
    /\ (jobDescription.title # <<>> \/ jobDescription.content # <<>>)
    /\ jobDescription' = EmptyJobDescription
    /\ jobDescriptionId' = Null
    /\ store' = removeItem(removeItem(store, STORAGE_KEYS.JOB_DESCRIPTION),
                           STORAGE_KEYS.JOB_DESCRIPTION_ID)
    /\ snackbar' = "Job description cleared."
    /\ draft' = Null
    /\ UNCHANGED <<route, mounted, crashed, activeTab, resumeData, chatData, lastUpdated,
                   actionLoading, uploadLoading>>
    /\ UNCHANGED <<srvResume, srvJd, pending, remounted>>
    /\ UNCHANGED otherVars

\* PortfolioViewer.js:381-413
clearProfileData ==
    /\ mounted
    /\ store' = EmptyStore
    /\ resumeData' = Null
    /\ chatData' = Null
    /\ jobDescription' = EmptyJobDescription
    /\ jobDescriptionId' = Null
    /\ lastUpdated' = Null
    /\ snackbar' = "Profile data cleared successfully."
    /\ draft' = Null
    /\ UNCHANGED <<route, mounted, crashed, activeTab, actionLoading, uploadLoading>>
    /\ UNCHANGED <<srvResume, srvJd, pending, remounted>>
    /\ UNCHANGED otherVars

\* ------------------------------------------------------------ navigation
MIUnrendered ==
    /\ miMounted' = FALSE
    /\ interview' = Null
    /\ miLoading' = FALSE
    /\ miError' = Null

\* The user picks another screen in the navigation bar. One route is rendered
\* at a time (App's <Routes>): the screen shown is unmounted, and the runs it
\* has suspended go on with their setState dead.
Navigate(path) ==
    /\ ~crashed
    /\ path # route
    /\ route' = path
    /\ IF mounted THEN Unrendered ELSE UNCHANGED <<mounted, activeTab, resumeData, chatData,
                                                  jobDescription, jobDescriptionId, lastUpdated,
                                                  actionLoading, snackbar, uploadLoading,
                                                  chatVars>>
    /\ IF miMounted THEN MIUnrendered ELSE UNCHANGED <<miMounted, interview, miLoading, miError>>
    /\ pending' = Detached(pending)
    /\ UNCHANGED <<crashed, store, srvResume, srvJd, draft, remounted, srvSessions,
                   published, auxVars>>

\* ------------------------------------------- Profile: generation actions
\* The key of actionLoading each button reads: PortfolioViewer.js:638-686
ButtonKey(action) ==
    CASE action = "optimize" -> "optimize"
      [] action = "portfolio" -> "portfolio"
      [] action = "cover-letter" -> "coverLetter"
      [] action = "interview" -> "interview"
      [] action = "career-guide" -> "careerGuide"

\* disabled={!isProfileComplete || actionLoading.<key>}
ButtonDisabled(action) == ~isProfileComplete \/ actionLoading[ButtonKey(action)]

\* resumeData?.resumeId || chatData?.resumeId: PortfolioViewer.js:427
ActiveResumeId ==
    IF Present(resumeData) THEN Some(Get(resumeData).resumeId)
    ELSE IF Present(chatData) THEN Some(Get(chatData).resumeId)
    ELSE Null

\* a setActionLoading that writes every flag
SetLoading_All(al, action, flag) == [k \in DOMAIN al |-> flag]

\* setActionLoading(prev => ({...prev, [action]: flag})): PortfolioViewer.js:438, 545
SetLoading(al, action, flag) == [al EXCEPT ![action] = flag]

\* the first await of an action: the POST of the interview case (485), or the
\* POST of line 519 for the other four
FirstStage(action) == IF action = "interview" THEN "start" ELSE "post"

\* the body of the POST of line 519: PortfolioViewer.js:442-446, and 464-470
\* for portfolio (its title is left out; chat_data is absent from the others)
requestData(action) ==
    IF action = "portfolio"
    THEN [user_id |-> "userId",
          job_description_id |-> jobDescriptionId,
          resume_id |-> IF Present(resumeData) THEN Some(Get(resumeData).resumeId) ELSE Null,
          chat_data |-> chatData]
    ELSE [user_id |-> "userId",
          job_description_id |-> jobDescriptionId,
          resume_id |-> ActiveResumeId,
          chat_data |-> Null]

\* handleAction up to its first await: PortfolioViewer.js:416-519
handleAction(action) ==
    /\ mounted
    /\ IF ~isProfileComplete
       THEN /\ snackbar' = "Please complete your profile and job description first."
            /\ UNCHANGED <<actionLoading, pending>>
       ELSE IF ~Present(ActiveResumeId)
       THEN /\ snackbar' = "Resume information is required. Please upload a resume or complete the chat."
            /\ UNCHANGED <<actionLoading, pending>>
       ELSE /\ HasFree
            /\ actionLoading' = SetLoading(actionLoading, action, TRUE)
            /\ pending' = Suspend([Req(action, FirstStage(action)) EXCEPT
                                       !.data = Some(requestData(action))])
            /\ UNCHANGED snackbar
    /\ UNCHANGED <<route, mounted, crashed, activeTab, resumeData, chatData, jobDescription,
                   jobDescriptionId, lastUpdated, uploadLoading>>
    /\ UNCHANGED <<store, srvResume, srvJd, draft, remounted>>
    /\ UNCHANGED otherVars

\* The user presses the button of an action: only an enabled button calls
\* its onClick.
ClickAction(action) ==
    /\ ~ButtonDisabled(action)
    /\ handleAction(action)

\* handleAction called whatever the button shows (its own guard of line 417).
InvokeHandleAction(action) == handleAction(action)

successMessage(action) ==
    CASE action = "optimize" -> "Resume optimization started."
      [] action = "portfolio" -> "Portfolio generation started."
      [] action = "cover-letter" -> "Cover letter generation started."
      [] action = "career-guide" -> "Career guide generation started."
      [] OTHER -> ""

errorMessage(action) ==
    CASE action = "optimize" -> "Error starting resume optimization."
      [] action = "portfolio" -> "Error starting portfolio generation."
      [] action = "cover-letter" -> "Error starting cover letter generation."
      [] action = "career-guide" -> "Error starting career guide generation."
      [] OTHER -> ""

\* The POST of line 519 returns for optimize, portfolio, cover-letter and
\* career-guide: PortfolioViewer.js:519-546. navigate(redirectPath) leaves
\* the Profile screen.
ActionResponse(s, outcome) ==
    LET r == pending[s] IN
    /\ r.kind \in Actions \ {"interview"}
    /\ r.stage = "post"
    /\ IF outcome = "ok"
       THEN /\ route' = "/other"
            /\ IF mounted
               THEN Unrendered
               ELSE UNCHANGED <<mounted, activeTab, resumeData, chatData, jobDescription,
                                jobDescriptionId, lastUpdated, actionLoading, snackbar,
                                uploadLoading, chatVars>>
            /\ IF miMounted THEN MIUnrendered
                            ELSE UNCHANGED <<miMounted, interview, miLoading, miError>>
            /\ pending' = [Detached(pending) EXCEPT ![s] = NoReq]
       ELSE /\ snackbar' = SetIfLive(r, errorMessage(r.kind), snackbar)
            /\ actionLoading' = SetIfLive(r, SetLoading(actionLoading, r.kind, FALSE),
                                          actionLoading)
            /\ pending' = [pending EXCEPT ![s] = NoReq]
            /\ UNCHANGED <<route, mounted, activeTab, resumeData, chatData, jobDescription,
                           jobDescriptionId, lastUpdated, uploadLoading, chatVars>>
            /\ UNCHANGED <<miMounted, interview, miLoading, miError>>
    /\ UNCHANGED <<crashed, store, srvResume, srvJd, draft, remounted, srvSessions,
                   published, auxVars>>

\* POST /api/interviews/start of the interview case returns:
\* PortfolioViewer.js:485-503, then the POST of line 519, which the break of
\* line 503 falls through to with endpoint ''. dispatchEvent runs the
\* listeners registered at that moment: MockInterviewer's, when it is
\* mounted (MockInterviewer.jsx:126-132, then fetchInterview up to its await,
\* 195-202).
InterviewStartResponse(s, outcome) ==
    LET r == pending[s]
        newId == srvSessions + 1
        p1 == IF mounted THEN Detached(pending) ELSE pending
        p2 == [p1 EXCEPT ![s].stage = "post", ![s].calls = 2]
        free == {t \in Slots : p2[t].kind = "none"}
        first == CHOOSE t \in free : \A u \in free : t <= u
    IN
    /\ r.kind = "interview" /\ r.stage = "start"
    /\ IF outcome = "ok"
       THEN /\ srvSessions < MaxSessions
            /\ srvSessions' = newId
            /\ route' = "/mock-interviewer"
            /\ IF mounted
               THEN Unrendered
               ELSE UNCHANGED <<mounted, activeTab, resumeData, chatData, jobDescription,
                                jobDescriptionId, lastUpdated, actionLoading, snackbar,
                                uploadLoading, chatVars>>
            /\ published' = Some(newId)
            \* the await returned (485), navigate (491), dispatchEvent (494)
            /\ steps' = <<"started", "navigated", "published">>
            /\ IF miMounted
               THEN /\ free # {}
                    /\ miLoading' = TRUE
                    /\ miError' = Null
                    /\ pending' = [p2 EXCEPT ![first] = [Req("miFetch", "get") EXCEPT !.id = newId]]
                    /\ UNCHANGED <<miMounted, interview>>
               ELSE /\ pending' = p2
                    /\ UNCHANGED <<miMounted, interview, miLoading, miError>>
       ELSE /\ snackbar' = SetIfLive(r, errorMessage(r.kind), snackbar)
            /\ actionLoading' = SetIfLive(r, SetLoading(actionLoading, r.kind, FALSE),
                                          actionLoading)
            /\ pending' = [pending EXCEPT ![s] = NoReq]
            /\ UNCHANGED <<route, mounted, activeTab, resumeData, chatData, jobDescription,
                           jobDescriptionId, lastUpdated, uploadLoading, chatVars>>
            /\ UNCHANGED <<miMounted, interview, miLoading, miError, srvSessions, published,
                           steps, soloVars>>
    /\ UNCHANGED <<crashed, store, srvResume, srvJd, draft, remounted, parseVars, viewer,
                   exportData, downloaded, soloVars>>

\* The POST of line 519 returns for the interview case: PortfolioViewer.js:519-546
\* (successMessage, errorMessage and redirectPath are '' there).
InterviewPostResponse(s, outcome) ==
    LET r == pending[s] IN
    /\ r.kind = "interview" /\ r.stage = "post"
    /\ snackbar' = SetIfLive(r, IF outcome = "ok" THEN successMessage(r.kind)
                                                  ELSE errorMessage(r.kind), snackbar)
    /\ actionLoading' = SetIfLive(r, SetLoading(actionLoading, r.kind, FALSE), actionLoading)
    /\ pending' = [pending EXCEPT ![s] = NoReq]
    /\ UNCHANGED <<route, mounted, crashed, activeTab, resumeData, chatData, jobDescription,
                   jobDescriptionId, lastUpdated, uploadLoading>>
    /\ UNCHANGED <<store, srvResume, srvJd, draft, remounted>>
    /\ UNCHANGED otherVars

\* ----------------------------------------------------- interview screen
\* MockInterviewer.jsx:120-138: the mount effect, startNewInterview up to its
\* first await (140-148), and the listener's registration.
MIMount ==
    /\ route = "/mock-interviewer"
    /\ ~miMounted /\ ~crashed
    /\ HasFree
    /\ miMounted' = TRUE
    /\ interview' = Null
    /\ miLoading' = TRUE
    /\ miError' = Null
    /\ pending' = Suspend(Req("miStart", "jd"))
    /\ UNCHANGED <<route, profileVars, store, srvResume, srvJd, draft, remounted,
                   srvSessions, published, chatVars, auxVars>>

\* what a call of the interview screen can come back with; a timeout is an
\* error whose code is ECONNABORTED (axios.defaults.timeout, MockInterviewer.jsx:40)
CallOutcomes == Outcomes \cup {"timeout"}

\* the text of the catch blocks of startNewInterview (153-158, 176-181) and
\* fetchInterview (225-227), for a failure with no detail from the backend
miErrorMessage(call, outcome) ==
    CASE call = "jd" ->
             IF outcome = "timeout"
             THEN "Connection timed out while fetching job description. Please try again."
             ELSE "Failed to fetch job description. Please ensure you have added a job description."
      [] call = "start" ->
             IF outcome = "timeout"
             THEN "Connection timed out while starting interview. Please try again."
             ELSE "Failed to start interview. Please try again."
      [] call = "fetch" ->
             IF outcome = "timeout"
             THEN "Connection timed out while loading interview. Please try again."
             ELSE "Failed to load interview"

\* GET /api/job-descriptions/{userId}/latest of startNewInterview returns:
\* MockInterviewer.jsx:148-165
MIJdResponse(s, outcome) ==
    LET r == pending[s] IN
    /\ r.kind = "miStart" /\ r.stage = "jd"
    /\ IF outcome = "ok" /\ Present(srvJd)
       THEN /\ pending' = [pending EXCEPT ![s].stage = "start", ![s].calls = 2]
            /\ UNCHANGED <<miError, miLoading>>
       ELSE /\ miError' = SetIfLive(r, Some(miErrorMessage("jd", outcome)), miError)
            /\ miLoading' = SetIfLive(r, FALSE, miLoading)
            /\ pending' = [pending EXCEPT ![s] = NoReq]
    /\ UNCHANGED <<route, profileVars, store, srvResume, srvJd, draft, remounted,
                   miMounted, interview, srvSessions, published, chatVars, auxVars>>

\* POST /api/interviews/start of startNewInterview returns:
\* MockInterviewer.jsx:162-192
MIStartResponse(s, outcome) ==
    LET r == pending[s] IN
    /\ r.kind = "miStart" /\ r.stage = "start"
    /\ IF outcome = "ok"
       THEN /\ srvSessions < MaxSessions
            /\ srvSessions' = srvSessions + 1
            /\ interview' = SetIfLive(r, Some(srvSessions + 1), interview)
            /\ UNCHANGED miError
       ELSE /\ miError' = SetIfLive(r, Some(miErrorMessage("start", outcome)), miError)
            /\ UNCHANGED <<srvSessions, interview>>
    /\ miLoading' = SetIfLive(r, FALSE, miLoading)
    /\ pending' = [pending EXCEPT ![s] = NoReq]
    /\ UNCHANGED <<route, profileVars, store, srvResume, srvJd, draft, remounted,
                   miMounted, published, chatVars, auxVars>>

\* GET /api/interviews/{id} of fetchInterview returns: MockInterviewer.jsx:202-237
MIFetchResponse(s, outcome) ==
    LET r == pending[s] IN
    /\ r.kind = "miFetch"
    /\ IF outcome = "ok"
       THEN /\ interview' = SetIfLive(r, Some(r.id), interview)
            /\ UNCHANGED miError
       ELSE /\ miError' = SetIfLive(r, Some(miErrorMessage("fetch", outcome)), miError)
            /\ UNCHANGED interview
    /\ miLoading' = SetIfLive(r, FALSE, miLoading)
    /\ pending' = [pending EXCEPT ![s] = NoReq]
    /\ UNCHANGED <<route, profileVars, store, srvResume, srvJd, draft, remounted,
                   miMounted, srvSessions, published, chatVars, auxVars>>

\* ------------------------------------------------------ history viewers
\* The body of a list endpoint's response: an array, null, or an object that
\* is not an array.
ListBodies == [kind : {"list"}, items : {<<>>, <<"a">>}]
ResponseBodies == ListBodies \cup {[kind |-> "null", items |-> <<>>],
                                   [kind |-> "object", items |-> <<>>]}
IsArray(d) == d.kind = "list"

\* The three viewers: each holds its collection (useState([])), the message
\* of its snackbar ("" while closed) and whether its render has thrown.
Viewers == {"resumes", "portfolios", "history"}
InitialViewer ==
    [v \in Viewers |-> [list |-> [kind |-> "list", items |-> <<>>], message |-> "",
                        broken |-> FALSE]]

\* a render of the viewer calls list.map (unnamed/part_007:148,
\* PortfolioGenerator.jsx:643, MockInterviewer.jsx:717), which throws on what
\* is not an array; no error boundary catches it
Render(v, list, message) ==
    /\ ~viewer[v].broken
    /\ viewer' = [viewer EXCEPT ![v] = [list |-> list, message |-> message,
                                        broken |-> ~IsArray(list)]]
    /\ UNCHANGED <<route, profileVars, envVars, miVars, chatVars, parseVars,
                   exportData, downloaded, steps, soloVars>>

\* ResumeOptimizer.fetchResumes after its GET: unnamed/part_007:38-56.
\* setResumes(response.data) comes first; response.data.length throws on
\* null and is undefined on an object.
fetchResumes(outcome, data) ==
    IF outcome = "ok"
    THEN Render("resumes", data,
                IF data.kind = "null" THEN "Error fetching resumes. Please try again."
                ELSE viewer["resumes"].message)
    ELSE Render("resumes", viewer["resumes"].list, "Error fetching resumes. Please try again.")

\* PortfolioGenerator.fetchPortfolios after its GET: PortfolioGenerator.jsx:383-411
fetchPortfolios(outcome, data) ==
    IF outcome = "ok" /\ IsArray(data)
    THEN Render("portfolios", data, viewer["portfolios"].message)
    ELSE Render("portfolios", viewer["portfolios"].list,
                IF outcome = "ok"
                THEN "Invalid response format: expected array of portfolios"
                ELSE "Failed to fetch portfolios. Please try again.")

\* MockInterviewer.fetchHistory after its GET: MockInterviewer.jsx:249-289
fetchHistory(outcome, data) ==
    IF outcome = "ok"
    THEN Render("history", IF IsArray(data) THEN data ELSE [kind |-> "list", items |-> <<>>],
                viewer["history"].message)
    ELSE Render("history", [kind |-> "list", items |-> <<>>],
                "Error: Failed to fetch interview history. Please try refreshing the page.")

\* the snackbar of a viewer closes (autoHideDuration, onClose)
CloseSnackbar(v) == viewer[v].message # "" /\ Render(v, viewer[v].list, "")

\* ---------------------------------------------------------------- export
\* Text of an export is a sequence of pieces: a tag, a run of other text, or
\* "$&", which String.prototype.replace reads in its replacement as "the
\* text that was matched".
MaxHtml == 3
MaxRounds == 3
NumQuestions == 5
MaxAccepted == 9
HtmlPieces == {"<head>", "</head>", "<p>Hi</p>"}
ExportData ==
    [html : StringsUpTo(HtmlPieces, MaxHtml),
     css : {Null, Some(<<>>), Some(<<"p{color:red}">>), Some(<<"$&">>)}]

\* html.includes(piece)
includes(html, piece) == \E i \in 1 .. Len(html) : html[i] = piece

\* html.replace(piece, replacement) of a text that includes piece: the first
\* occurrence is replaced, and "$&" in the replacement stands for piece
replace(html, piece, replacement) ==
    LET i == CHOOSE k \in 1 .. Len(html) :
                 html[k] = piece /\ \A j \in 1 .. k - 1 : html[j] # piece
        expanded == [k \in 1 .. Len(replacement) |->
                        IF replacement[k] = "$&" THEN piece ELSE replacement[k]]
    IN  SubSeq(html, 1, i - 1) \o expanded \o SubSeq(html, i + 1, Len(html))

\* PortfolioList.handleExport, the text it downloads: unnamed/part_002:455-465
handleExport(data) ==
    LET css == data.css
        block == <<"<style>\n">> \o Get(css) \o <<"\n</style>\n">>
    IN  IF Present(css) /\ Get(css) # <<>>
        THEN IF includes(data.html, "</head>")
             THEN replace(data.html, "</head>", block \o <<"</head>">>)
             ELSE block \o data.html
        ELSE data.html

\* PortfolioGenerator.handleExportPortfolio, the text it downloads:
\* PortfolioGenerator.jsx:453-463. An absent css is interpolated as
\* "undefined".
handleExportPortfolio(data) ==
    <<"<!DOCTYPE html><html><head>", "<style>">>
        \o (IF Present(data.css) THEN Get(data.css) ELSE <<"undefined">>)
        \o <<"</style>", "</head><body>">> \o data.html \o <<"</body></html>">>

\* the user exports a portfolio from one of the two lists, and the export
\* endpoint answers with exportData
Export(from) ==
    /\ downloaded = Null
    /\ downloaded' = Some([from |-> from,
                           content |-> IF from = "PortfolioList"
                                       THEN handleExport(exportData)
                                       ELSE handleExportPortfolio(exportData)])
    /\ UNCHANGED <<route, profileVars, envVars, miVars, chatVars, parseVars, viewer,
                   exportData, steps, soloVars>>

\* ------------------------------------------------ the draft store on its own
Keys == {STORAGE_KEYS.RESUME_DATA, STORAGE_KEYS.CHAT_DATA, STORAGE_KEYS.JOB_DESCRIPTION,
         STORAGE_KEYS.JOB_DESCRIPTION_ID, STORAGE_KEYS.LAST_UPDATED}

\* the values the handlers keep in memory and write under each key
DraftValues(key) ==
    CASE key = STORAGE_KEYS.RESUME_DATA -> {Some([resumeId |-> r]) : r \in ResumeIds}
      [] key = STORAGE_KEYS.CHAT_DATA ->
             {Some([resumeId |-> r,
                    data |-> structuredData([i \in 1 .. Len(questions) |-> SampleAnswer])]) :
                  r \in ResumeIds}
      [] key = STORAGE_KEYS.JOB_DESCRIPTION -> [title : Texts, content : Texts]
      [] key = STORAGE_KEYS.JOB_DESCRIPTION_ID -> {Some(j) : j \in JdIds}
      [] key = STORAGE_KEYS.LAST_UPDATED -> {Some(NewDate)}

\* every key written as JSON, the id and the time included
TextOf_AllJSON(key, v) == JSONstringify(v)

\* the text the handlers write for value v under each key: JSON.stringify(v)
\* (PortfolioViewer.js:165, 242, 285, 321), the id itself (179, 345),
\* timestamp.toISOString() (186, 247, 291, 351)
TextOf(key, v) ==
    CASE key = STORAGE_KEYS.JOB_DESCRIPTION_ID -> [fmt |-> "raw", val |-> Get(v)]
      [] key = STORAGE_KEYS.LAST_UPDATED -> toISOString(Get(v))
      [] OTHER -> JSONstringify(v)

\* what a key that holds nothing loads as
Absent(key) == IF key = STORAGE_KEYS.JOB_DESCRIPTION THEN EmptyJobDescription ELSE Null

\* one localStorage.setItem of the handlers, on its own
save(key, v) ==
    /\ store' = setItem(store, key, TextOf(key, v))
    /\ UNCHANGED <<route, profileVars, srvResume, srvJd, pending, draft, remounted>>
    /\ UNCHANGED otherVars

\* one localStorage.removeItem of the handlers, on its own
\* (PortfolioViewer.js:252, 303, 372-373, 383-387)
clear(key) ==
    /\ store' = removeItem(store, key)
    /\ UNCHANGED <<route, profileVars, srvResume, srvJd, pending, draft, remounted>>
    /\ UNCHANGED otherVars

\* ------------------------------------------------- the parser on its own
\* The Parse Work Experience step of handleSend (ChatPortfolio.jsx:57, 63-75)
\* applied to answer.
ParseWorkExperience ==
    /\ parsed = Null
    /\ parsed' = Some(WorkExperience(answer))
    /\ UNCHANGED <<route, profileVars, envVars, miVars, chatVars, answer, viewer,
                   exportData, downloaded, steps, soloVars>>

\* handleSend's "Parse Skills" on the answer
ParseSkills ==
    /\ parsed = Null
    /\ parsed' = Some(Skills(answer))
    /\ UNCHANGED <<route, profileVars, envVars, miVars, chatVars, answer, viewer,
                   exportData, downloaded, steps, soloVars>>

\* ------------------------------------- the answers of an interview session
\* The session shown has NumQuestions questions (interview.questions.length).
QuestionIndices == 0 .. NumQuestions - 1

\* response.data of POST /api/interviews/answer: with a score, or without
AnswerReplies == [score : {Null, Some(80)}, error : BOOLEAN]

\* a fresh session once fetchInterview has loaded it: no question has an
\* answer, the first unanswered one is shown (MockInterviewer.jsx:207-222)
InitSession ==
    /\ currentQuestionIndex = 0
    /\ answered = {}
    /\ showAllQuestions = FALSE
    /\ sending = FALSE
    /\ sendError = Null
    /\ sendCall = Null
    /\ accepted = <<>>
    /\ score = Null
    /\ sendSnackbar = ""

sessRest == <<route, profileVars, envVars, miVars, chatVars, parseVars, viewer, exportData,
              downloaded, steps, pcVars>>

\* the input box is rendered: MockInterviewer.jsx:657; it is enabled: 668, 673
InputShown == ~showAllQuestions /\ currentQuestionIndex < NumQuestions

\* handleSendMessage up to its await: MockInterviewer.jsx:338-347
handleSendMessage(message) ==
    /\ InputShown /\ ~sending
    /\ Len(accepted) < MaxAccepted
    /\ IF trim(message) = <<>>
       THEN UNCHANGED sessVars
       ELSE /\ sending' = TRUE
            /\ sendCall' = Some(currentQuestionIndex)
            /\ UNCHANGED <<currentQuestionIndex, answered, showAllQuestions, sendError,
                           accepted, score, sendSnackbar>>
    /\ UNCHANGED sessRest

\* the last question: currentQuestionIndex === interview.questions.length - 1
IsLastQuestion(i) == i = NumQuestions - 1

\* the rest of handleSendMessage, once POST /api/interviews/answer has
\* returned: MockInterviewer.jsx:349-417. The index is that of the render
\* that sent the call; the input is disabled while sending, so it is the
\* current one.
AnswerResponse(outcome, reply) ==
    LET i == Get(sendCall) IN
    /\ Present(sendCall)
    /\ sendCall' = Null
    /\ sending' = FALSE
    /\ IF outcome = "ok"
       THEN /\ accepted' = Append(accepted, i)
            /\ answered' = answered \cup {i}
            /\ UNCHANGED sendError
            /\ IF IsLastQuestion(i)
               THEN /\ showAllQuestions' = (showAllQuestions \/ Present(reply.score))
                    /\ score' = IF Present(reply.score) THEN reply.score ELSE score
                    /\ sendSnackbar' =
                           IF Present(reply.score) THEN "Interview completed! Your score: 80/100"
                           ELSE IF reply.error
                           THEN "Error processing interview results. Please check the history table for your score."
                           ELSE "Thank you for attending the interview. Your interview score will be updated in the table below. All the best."
                    /\ UNCHANGED currentQuestionIndex
               ELSE /\ currentQuestionIndex' = currentQuestionIndex + 1
                    /\ UNCHANGED <<showAllQuestions, score, sendSnackbar>>
       ELSE /\ sendError' = Some(IF outcome = "timeout"
                                 THEN "Connection timed out while submitting answer. Please try again."
                                 ELSE "Failed to submit answer")
            /\ sendSnackbar' = Get(sendError')
            /\ UNCHANGED <<currentQuestionIndex, answered, showAllQuestions, accepted, score>>
    /\ UNCHANGED sessRest

\* ------------------------------------------ the chat the backend drives
\* unnamed/part_003: ChatPortfolio({ onPortfolioCreated })
PortfolioIds == {"p1", "p2"}

\* res.data of the two chat endpoints: portfolio_id (of a start reply),
\* next_question and status may each be missing
ChatReplies ==
    [portfolio_id : {Null} \cup {Some(p) : p \in PortfolioIds},
     next_question : {Null, Some("q")},
     status : {"in_progress", "completed", "processing"}]

\* !aiReply || status === 'completed' || status === 'processing': part_003:77
Ends(reply) ==
    reply.next_question = Null \/ reply.status \in {"completed", "processing"}

\* part_003:12-26
InitPortfolioChat ==
    /\ pcMessages = <<[sender |-> "ai", text |-> Some("welcome")]>>
    /\ chatStarted = FALSE
    /\ portfolioId = Null
    /\ chatComplete = FALSE
    /\ pcLoading = FALSE
    /\ pcSnackbar = ""
    /\ pcCall = Null
    /\ srvPortfolios = {}
    /\ ended = FALSE
    /\ refreshes = 0

pcRest == <<route, profileVars, envVars, miVars, chatVars, parseVars, viewer, exportData,
            downloaded, steps, sessVars>>

\* handleSend up to its await: part_003:34-71. The text field and the Send
\* button are disabled while loading or when the chat is complete (136, 144).
pcHandleSend(input) ==
    /\ ~pcLoading /\ ~chatComplete
    /\ Len(SelectSeq(pcMessages, LAMBDA m : m.sender = "user")) < MaxRounds
    /\ IF trim(input) = <<>>
       THEN UNCHANGED pcVars
       ELSE /\ pcMessages' = Append(pcMessages, [sender |-> "user", text |-> Some("answer")])
            /\ pcLoading' = TRUE
            /\ chatStarted' = TRUE
            /\ pcCall' = Some(IF ~chatStarted
                              THEN [endpoint |-> "start", branch |-> "first",
                                    portfolio_id |-> Null]
                              ELSE IF portfolioId = Null
                              THEN [endpoint |-> "start", branch |-> "later",
                                    portfolio_id |-> Null]
                              ELSE [endpoint |-> "answer", branch |-> "later",
                                    portfolio_id |-> portfolioId])
            /\ UNCHANGED <<portfolioId, chatComplete, pcSnackbar, srvPortfolios, ended,
                           refreshes>>
    /\ UNCHANGED pcRest

\* the rest of handleSend, once its call has returned: part_003:49-53 for the
\* first start call, 63-94 for the others
pcResponse(outcome, reply) ==
    LET c == Get(pcCall)
        ai(text) == Append(pcMessages, [sender |-> "ai", text |-> text])
    IN
    /\ Present(pcCall)
    /\ c.endpoint = "answer" => reply.portfolio_id = Null
    /\ pcCall' = Null
    /\ pcLoading' = FALSE
    /\ IF outcome = "error"
       THEN /\ pcSnackbar' = "Error communicating with AI."
            /\ UNCHANGED <<pcMessages, portfolioId, chatComplete, srvPortfolios, ended,
                           refreshes>>
       ELSE /\ portfolioId' = IF c.endpoint = "start" THEN reply.portfolio_id ELSE portfolioId
            /\ srvPortfolios' = IF c.endpoint = "start" /\ Present(reply.portfolio_id)
                                THEN srvPortfolios \cup {Get(reply.portfolio_id)}
                                ELSE srvPortfolios
            /\ ended' = (ended \/ Ends(reply))
            /\ IF c.branch = "first"
               THEN /\ pcMessages' = ai(reply.next_question)
                    /\ UNCHANGED <<chatComplete, pcSnackbar, refreshes>>
               ELSE IF Ends(reply)
               THEN /\ chatComplete' = TRUE
                    /\ pcMessages' = ai(Some("Portfolio creation is in progress!"))
                    /\ pcSnackbar' = "Portfolio creation started! Check the Portfolio List."
                    /\ refreshes' = refreshes + 1
               ELSE /\ pcMessages' = ai(reply.next_question)
                    /\ UNCHANGED <<chatComplete, pcSnackbar, refreshes>>
    /\ UNCHANGED chatStarted
    /\ UNCHANGED pcRest

\* ------------------------------------------------------- specifications
\* Nothing is rendered yet, no call is suspended.
InitScreen ==
    /\ route = "/profile"
    /\ mounted = FALSE
    /\ crashed = FALSE
    /\ activeTab = 0
    /\ resumeData = Null
    /\ chatData = Null
    /\ jobDescription = EmptyJobDescription
    /\ jobDescriptionId = Null
    /\ lastUpdated = Null
    /\ actionLoading = AllIdle
    /\ snackbar = ""
    /\ uploadLoading = FALSE
    /\ pending = [s \in Slots |-> NoReq]
    /\ draft = Null
    /\ remounted = FALSE
    /\ miMounted = FALSE
    /\ interview = Null
    /\ miLoading = FALSE
    /\ miError = Null
    /\ srvSessions = 0
    /\ published = Null
    /\ messages = InitialMessages
    /\ currentQuestion = 0
    /\ emitted = <<>>
    /\ uploadSnackbar = ""
    /\ viewer = InitialViewer
    /\ downloaded = Null
    /\ steps = <<>>
    /\ InitPortfolioChat
    /\ InitSession
    /\ parsed = Null

\* A first visit: localStorage and the backend hold nothing.
Init ==
    /\ InitScreen
    /\ store = EmptyStore
    /\ srvResume = Null
    /\ srvJd = Null
    /\ answer = <<>>
    /\ exportData = [html |-> <<>>, css |-> Null]

\* The backend holds a resume and a job description of an earlier visit, and
\* localStorage holds what that visit left: the profile is complete as soon
\* as the screen is mounted.
InitComplete ==
    /\ InitScreen
    /\ store = [profile_resume_data |-> Some(JSONstringify(Some([resumeId |-> "r1"]))),
                profile_chat_data |-> Null,
                profile_job_description |->
                    Some(JSONstringify([title |-> <<"x">>, content |-> <<"x">>])),
                profile_job_description_id |-> Some([fmt |-> "raw", val |-> "j1"]),
                profile_last_updated |-> Some(toISOString(NewDate))]
    /\ srvResume = Some("r1")
    /\ srvJd = Some([id |-> "j1", title |-> <<"x">>, content |-> <<"x">>])
    /\ answer = <<>>
    /\ exportData = [html |-> <<>>, css |-> Null]

\* As InitComplete, after a visit that completed the chat instead of
\* uploading a resume: the resume the backend holds is the chat profile.
InitChatComplete ==
    /\ InitScreen
    /\ store = [profile_resume_data |-> Null,
                profile_chat_data |->
                    Some(JSONstringify(Some(
                        [resumeId |-> "r1",
                         data |-> structuredData([i \in 1 .. Len(questions) |-> SampleAnswer])]))),
                profile_job_description |->
                    Some(JSONstringify([title |-> <<"x">>, content |-> <<"x">>])),
                profile_job_description_id |-> Some([fmt |-> "raw", val |-> "j1"]),
                profile_last_updated |-> Some(toISOString(NewDate))]
    /\ srvResume = Some("r1")
    /\ srvJd = Some([id |-> "j1", title |-> <<"x">>, content |-> <<"x">>])
    /\ answer = <<>>
    /\ exportData = [html |-> <<>>, css |-> Null]

\* A first visit after the screen was mounted, its sync failed at the first
\* call and the user opened the Chat Input tab: Init, then Mount,
\* FetchResumeResponse(1, "error") and handleTabChange(1).
InitChat ==
    /\ route = "/profile"
    /\ mounted = TRUE
    /\ crashed = FALSE
    /\ activeTab = 1
    /\ resumeData = Null
    /\ chatData = Null
    /\ jobDescription = EmptyJobDescription
    /\ jobDescriptionId = Null
    /\ lastUpdated = Null
    /\ actionLoading = AllIdle
    /\ snackbar = ""
    /\ uploadLoading = FALSE
    /\ pending = [s \in Slots |-> NoReq]
    /\ draft = Null
    /\ remounted = TRUE
    /\ miMounted = FALSE
    /\ interview = Null
    /\ miLoading = FALSE
    /\ miError = Null
    /\ srvSessions = 0
    /\ published = Null
    /\ messages = InitialMessages
    /\ currentQuestion = 0
    /\ emitted = <<>>
    /\ uploadSnackbar = ""
    /\ viewer = InitialViewer
    /\ downloaded = Null
    /\ steps = <<>>
    /\ InitPortfolioChat
    /\ InitSession
    /\ parsed = Null
    /\ store = EmptyStore
    /\ srvResume = Null
    /\ srvJd = Null
    /\ answer = <<>>
    /\ exportData = [html |-> <<>>, css |-> Null]

\* Text that is not JSON and not a date.
Malformed == [fmt |-> "bad", val |-> <<>>]

\* localStorage belongs to the browser, not to the program: under each key it
\* can hold nothing, what the program writes there, or anything else.
StoredStates ==
    [profile_resume_data :
         {Null, Some(Malformed), Some(JSONstringify(Some([resumeId |-> "r1"])))},
     profile_chat_data :
         {Null, Some(Malformed),
          Some(JSONstringify(Some([resumeId |-> "r1",
                                   data |-> structuredData([i \in 1 .. Len(questions) |->
                                                               SampleAnswer])])))},
     profile_job_description :
         {Null, Some(Malformed),
          Some(JSONstringify([title |-> <<"x">>, content |-> <<"x">>]))},
     profile_job_description_id :
         {Null, Some([fmt |-> "raw", val |-> ""]), Some([fmt |-> "raw", val |-> "j1"])},
     profile_last_updated :
         {Null, Some(Malformed), Some(toISOString(NewDate))}]

\* A visit that finds localStorage in any of these states.
InitLoad ==
    /\ InitScreen
    /\ store \in StoredStates
    /\ srvResume = Null
    /\ srvJd = Null
    /\ answer = <<>>
    /\ exportData = [html |-> <<>>, css |-> Null]

\* The parser is given a work-experience answer.
InitParse ==
    /\ InitScreen
    /\ store = EmptyStore
    /\ srvResume = Null
    /\ srvJd = Null
    /\ answer \in WorkAnswers
    /\ exportData = [html |-> <<>>, css |-> Null]

\* The screen comes and goes: mount (with its sync from the backend) and
\* navigation.
NextScreen ==
    \/ Mount
    \/ \E path \in Routes : Navigate(path)
    \/ \E s \in Slots, o \in Outcomes : FetchResumeResponse(s, o)
    \/ \E s \in Slots, o \in Outcomes : FetchJdResponse(s, o)

\* The profile source: resume upload, chat intake (each question answered
\* with SampleAnswer), reset.
NextSource ==
    \/ \E t \in {0, 1} : handleTabChange(t)
    \/ StartUpload
    \/ \E s \in Slots, o \in Outcomes, rid \in ResumeIds : UploadResponse(s, o, rid)
    \/ handleSend(SampleAnswer)
    \/ \E s \in Slots, o \in Outcomes, rid \in ResumeIds : ChatResponse(s, o, rid)
    \/ clearProfileData

\* The job description: edit, save, clear.
NextJd ==
    \/ \E f \in {"title", "content"}, v \in Texts : handleJobDescriptionChange(f, v)
    \/ handleSaveJobDescription
    \/ \E s \in Slots, o \in Outcomes, j \in {Null} \cup {Some(i) : i \in JdIds} :
           SaveJdResponse(s, o, j)
    \/ handleClearJobDescription

\* The five generation actions, by their buttons.
NextActions ==
    \/ \E a \in Actions : ClickAction(a)
    \/ \E s \in Slots, o \in Outcomes : ActionResponse(s, o)
    \/ \E s \in Slots, o \in Outcomes : InterviewStartResponse(s, o)
    \/ \E s \in Slots, o \in Outcomes : InterviewPostResponse(s, o)

\* The interview screen.
NextInterviewer ==
    \/ MIMount
    \/ \E s \in Slots, o \in Outcomes : MIJdResponse(s, o)
    \/ \E s \in Slots, o \in Outcomes : MIStartResponse(s, o)
    \/ \E s \in Slots, o \in Outcomes : MIFetchResponse(s, o)

\* The chat intake, with any answer.
NextChat ==
    \/ \E input \in ChatInputs : handleSend(input)
    \/ \E s \in Slots, o \in Outcomes, rid \in ResumeIds : ChatResponse(s, o, rid)

\* The draft store, written and cleared key by key.
NextStore ==
    \/ \E key \in Keys : \E v \in DraftValues(key) : save(key, v)
    \/ \E key \in Keys : clear(key)

\* The two forms of the Profile screen with every input: fields that are
\* empty or only spaces, and handleSubmit whatever its button's state.
NextForms ==
    \/ \E f \in {"title", "content"}, v \in Texts \cup {<<" ">>} :
           handleJobDescriptionChange(f, v)
    \/ handleSaveJobDescription
    \/ \E s \in Slots, o \in Outcomes, j \in {Null} \cup {Some(i) : i \in JdIds} :
           SaveJdResponse(s, o, j)
    \/ \E file \in BOOLEAN, title \in Texts : handleSubmit(file, title)
    \/ \E s \in Slots, o \in Outcomes, rid \in ResumeIds : UploadResponse(s, o, rid)

\* The calls of the Profile screen and of the interview screen, each coming
\* back with a result, an error or a timeout.
NextCalls ==
    \/ Mount
    \/ \E path \in Routes : Navigate(path)
    \/ \E s \in Slots, o \in Outcomes : FetchResumeResponse(s, o)
    \/ \E s \in Slots, o \in Outcomes : FetchJdResponse(s, o)
    \/ \E a \in Actions : ClickAction(a)
    \/ \E s \in Slots, o \in CallOutcomes : ActionResponse(s, o)
    \/ \E s \in Slots, o \in CallOutcomes : InterviewStartResponse(s, o)
    \/ \E s \in Slots, o \in CallOutcomes : InterviewPostResponse(s, o)
    \/ handleSaveJobDescription
    \/ \E s \in Slots, o \in CallOutcomes, j \in {Null} \cup {Some(i) : i \in JdIds} :
           SaveJdResponse(s, o, j)
    \/ MIMount
    \/ \E s \in Slots, o \in CallOutcomes : MIJdResponse(s, o)
    \/ \E s \in Slots, o \in CallOutcomes : MIStartResponse(s, o)
    \/ \E s \in Slots, o \in CallOutcomes : MIFetchResponse(s, o)

\* The list endpoints of the history viewers answer.
NextViewers ==
    \/ \E o \in Outcomes, d \in ResponseBodies : fetchResumes(o, d)
    \/ \E o \in Outcomes, d \in ResponseBodies : fetchPortfolios(o, d)
    \/ \E o \in Outcomes, d \in ResponseBodies : fetchHistory(o, d)
    \/ \E v \in Viewers : CloseSnackbar(v)

\* A portfolio is exported.
NextExport == \E from \in {"PortfolioList", "PortfolioGenerator"} : Export(from)

\* The whole front end.
Next ==
    NextScreen \/ NextSource \/ NextJd \/ NextActions \/ NextInterviewer \/ NextChat
        \/ ParseWorkExperience \/ NextStore \/ NextForms \/ NextCalls \/ NextViewers \/ NextExport \/ ParseSkills
Spec == Init /\ [][Next]_vars

\* The specifications below are Spec with part of the controls in use.

\* The profile source is set and reset; the job description is left alone.
SpecSource == Init /\ [][NextScreen \/ NextSource]_vars

\* The job description is edited, saved and cleared; no profile source.
SpecJd == Init /\ [][NextScreen \/ NextJd]_vars

\* The job description of a complete profile is edited, saved again and
\* cleared.
SpecResave == InitComplete /\ [][NextScreen \/ NextJd]_vars

\* The upload form and the job-description form, valid or not.
SpecForms ==
    Init /\ [][Mount \/ (\E s \in Slots, o \in Outcomes : FetchResumeResponse(s, o))
                    \/ (\E s \in Slots, o \in Outcomes : FetchJdResponse(s, o))
                    \/ NextForms]_vars

\* A complete profile whose calls, and those of the interview screen, may
\* time out.
SpecCalls == InitComplete /\ [][NextCalls]_vars

\* The history viewers, whatever their list endpoints return.
SpecViewers == Init /\ [][NextViewers]_vars

\* The generation actions of a complete profile; clearing the job description
\* or the profile makes it incomplete, the next mount's sync completes it again.
NextGenerate == NextScreen \/ NextActions \/ handleClearJobDescription \/ clearProfileData
SpecActions == InitComplete /\ [][NextGenerate]_vars

\* The generation actions of a complete profile whose source is the resume
\* or the chat.
SpecRequests == (InitComplete \/ InitChatComplete) /\ [][NextGenerate]_vars

\* A profile whose source is an uploaded resume; the user completes the chat
\* intake, and the POST of the chat profile succeeds or fails.
SpecChatSave ==
    InitComplete /\ [][\/ Mount
                       \/ \E s \in Slots, o \in Outcomes : FetchResumeResponse(s, o)
                       \/ \E s \in Slots, o \in Outcomes : FetchJdResponse(s, o)
                       \/ \E t \in {0, 1} : handleTabChange(t)
                       \/ handleSend(SampleAnswer)
                       \/ \E s \in Slots, o \in Outcomes, rid \in ResumeIds :
                              ChatResponse(s, o, rid)]_vars

\* SpecActions, with handleAction also called when its button is disabled.
SpecHandler == InitComplete /\ [][NextGenerate \/ \E a \in Actions : InvokeHandleAction(a)]_vars

\* A complete profile, its interview action, and the interview screen.
SpecInterview ==
    InitComplete /\ [][NextScreen \/ ClickAction("interview")
                       \/ (\E s \in Slots, o \in Outcomes : InterviewStartResponse(s, o))
                       \/ (\E s \in Slots, o \in Outcomes : InterviewPostResponse(s, o))
                       \/ NextInterviewer]_vars

\* One chat intake, from its first question on.
SpecChat == InitChat /\ [][NextChat]_vars

\* The Profile screen is loaded from any localStorage.
SpecLoad == InitLoad /\ [][NextScreen]_vars

\* The draft store under every sequence of writes, and the screen loaded
\* from it.
SpecStore == Init /\ [][Mount \/ NextStore]_vars

\* The skills parser on each of its inputs.
InitSkills ==
    /\ InitScreen
    /\ store = EmptyStore
    /\ srvResume = Null
    /\ srvJd = Null
    /\ answer \in SkillsAnswers
    /\ exportData = [html |-> <<>>, css |-> Null]
SpecSkills == InitSkills /\ [][ParseSkills]_vars

\* An export of each response the endpoint can give.
InitExport ==
    /\ InitScreen
    /\ store = EmptyStore
    /\ srvResume = Null
    /\ srvJd = Null
    /\ answer = <<>>
    /\ exportData \in ExportData
SpecExport == InitExport /\ [][NextExport]_vars

\* The chat the backend drives, whatever the backend replies.
NextPortfolioChat ==
    \/ \E input \in {<<" ">>, <<"x">>} : pcHandleSend(input)
    \/ \E o \in Outcomes, reply \in ChatReplies : pcResponse(o, reply)
SpecPortfolioChat == Init /\ [][NextPortfolioChat]_vars

\* The answers of one interview session.
NextAnswers ==
    \/ \E message \in {<<" ">>, <<"x">>} : handleSendMessage(message)
    \/ \E o \in CallOutcomes, reply \in AnswerReplies : AnswerResponse(o, reply)
SpecAnswers == Init /\ [][NextAnswers]_vars

\* The work-experience parser on each of its inputs.
SpecParse == InitParse /\ [][ParseWorkExperience]_vars

\* -------------------------------------------------------------- properties

\* C1: the resume handle and the chat handle are mutually exclusive: in every
\* reachable state at most one of resumeData and chatData is present in
\* memory, and at most one of profile_resume_data and profile_chat_data in
\* the draft store.
C1_MutuallyExclusive ==
    /\ ~(Present(resumeData) /\ Present(chatData))
    /\ ~(Present(getItem(store, STORAGE_KEYS.RESUME_DATA))
         /\ Present(getItem(store, STORAGE_KEYS.CHAT_DATA)))

\* C2: triggering a generation action while the profile is not complete (no
\* resume or chat handle, or no saved job-description id) issues no network
\* call and sets no in-flight flag: such a run of handleAction leaves the
\* suspended calls and actionLoading as they are.
C2_IncompleteTriggerIsNoOp ==
    [][\A a \in Actions :
          (handleAction(a)
           /\ ~((Present(resumeData) \/ Present(chatData)) /\ Present(jobDescriptionId)))
          => (pending' = pending /\ actionLoading' = actionLoading)]_vars

\* C2's case: handleAction ran on an incomplete profile (only that run shows
\* this message).
C2_Witness ==
    /\ mounted
    /\ snackbar = "Please complete your profile and job description first."
    /\ ~Present(jobDescriptionId)
    /\ Present(resumeData)

\* C3: for each of the five generation actions, at most one request of that
\* action is outstanding at any time (its button being disabled while one is
\* in flight).
C3_OneRequestPerAction ==
    \A a \in Actions : Cardinality({s \in Slots : pending[s].kind = a}) <= 1

\* C4: each accepted trigger of a generation action issues exactly one backend
\* call: a run of handleAction that is waiting for the backend has issued one
\* call and no other.
C4_OneCallPerTrigger ==
    \A s \in Slots : pending[s].kind \in Actions => pending[s].calls = 1

\* C5: after the Profile interview action succeeded, the interview screen,
\* once its own requests have returned without an error, shows the session
\* the action created and published.
C5_ViewerShowsPublishedSession ==
    (/\ Present(published)
     /\ miMounted
     /\ ~miLoading
     /\ miError = Null
     /\ \A s \in Slots : pending[s].kind \notin {"miStart", "miFetch"})
    => interview = published

\* C6: in the chat intake with its N = 6 questions, the structured record is
\* passed to onChatComplete exactly once when N non-empty answers have been
\* submitted, on the N-th of them, and not before: with fewer than N answers
\* submitted nothing has been emitted, with N answers exactly one record.
C6_EmittedOnceOnNthAnswer ==
    LET n == Len(UserAnswers(messages)) IN
    /\ n < Len(questions) => emitted = <<>>
    /\ n = Len(questions) => Len(emitted) = 1

\* C6's case: the N-th answer has been submitted and the record emitted.
C6_Witness ==
    /\ Len(UserAnswers(messages)) = Len(questions)
    /\ Len(emitted) = 1

\* C7: on completion of the chat of N = 6 questions, the structured record
\* has exactly N-1 downstream fields (the fields other than Name and About
\* Me) populated, one from each of the answers after the first.
C7_DownstreamFieldsPopulated ==
    emitted # <<>> =>
        Cardinality({f \in StructuredFields \ {"Name", "About Me"} : emitted[1][f] # <<>>})
            = Len(questions) - 1

\* The positions of s that hold a character of D.
SeparatorsOf(s, D) == {i \in 1 .. Len(s) : s[i] \in D}

\* The position of the j-th separator of s: 0 for j = 0, and Len(s) + 1 past
\* the last one.
Boundary(s, D, j) ==
    LET P == SeparatorsOf(s, D) IN
    IF j = 0 THEN 0
    ELSE IF j > Cardinality(P) THEN Len(s) + 1
    ELSE CHOOSE p \in P : Cardinality({q \in P : q < p}) = j - 1

\* What stands between the (k-1)-th and the k-th separator of s; the empty
\* string when s has no k-th piece.
Piece(s, D, k) ==
    IF k > Cardinality(SeparatorsOf(s, D)) + 1 THEN <<>>
    ELSE SubSeq(s, Boundary(s, D, k - 1) + 1, Boundary(s, D, k) - 1)

\* s from its first to its last character that is not white space.
Stripped(s) ==
    LET ns == {i \in 1 .. Len(s) : ~IsSpace(s[i])} IN
    IF ns = {} THEN <<>>
    ELSE SubSeq(s, CHOOSE i \in ns : \A j \in ns : i <= j,
                   CHOOSE i \in ns : \A j \in ns : j <= i)

\* C8: for every work-experience answer, the parsed list has one entry per
\* ';'-separated piece of the answer, in order, and the entry's Company,
\* Designation, Duration and Description are the first four '|'-separated
\* pieces of that piece with the white space around them removed, a missing
\* piece giving the empty string; "Engineer | Acme | 2019-2022 | Built things"
\* gives exactly the one entry {Company: Engineer, Designation: Acme,
\* Duration: 2019-2022, Description: Built things}.
C8_WorkExperienceParse ==
    Present(parsed) =>
        LET list == Get(parsed) IN
        /\ Len(list) = Cardinality(SeparatorsOf(answer, {";"})) + 1
        /\ \A i \in 1 .. Len(list) :
               LET entry == Piece(answer, {";"}, i) IN
               list[i] = [Company |-> Stripped(Piece(entry, {"|"}, 1)),
                          Designation |-> Stripped(Piece(entry, {"|"}, 2)),
                          Duration |-> Stripped(Piece(entry, {"|"}, 3)),
                          Description |-> Stripped(Piece(entry, {"|"}, 4))]
        /\ answer = ExampleAnswer =>
               list = <<[Company |-> ExampleCompany,
                         Designation |-> ExampleDesignation,
                         Duration |-> ExampleDuration,
                         Description |-> ExampleDescription]>>

\* C8's case: the example answer has been parsed.
C8_Witness == Present(parsed) /\ answer = ExampleAnswer

\* C9: after the user edited the job description and the Profile screen was
\* mounted again, the job description in memory is the draft of the last edit,
\* whatever the mount sync got from the backend (here: once the sync and every
\* other call have returned).
C9_DraftSurvivesRemount ==
    (/\ mounted
     /\ remounted
     /\ Present(draft)
     /\ \A s \in Slots : pending[s].kind = "none")
    => jobDescription = Get(draft)

\* C10: a draft key whose stored value is absent or malformed is not fatal:
\* whatever localStorage holds, the Profile screen does not fail to
\* initialise.
C10_MalformedIsNotFatal == ~crashed

C12_NoIdIsIncomplete ==
    [][\A s \in Slots :
           (SaveJdResponse(s, "ok", Null) /\ pending[s].live)
               => /\ ~isProfileComplete'
                  /\ snackbar' = "Error saving job description. Please try again."]_vars

\* C13: input that fails client-side validation never reaches the backend: no
\* upload call is outstanding whose form had no file or an empty name, no
\* job-description save is outstanding whose title or content is empty or
\* only spaces; and a submit of the upload form without a file or a name
\* issues no call and shows the upload form's error notification at once.
C13_InvalidInputIssuesNoCall ==
    /\ [](\A s \in Slots :
             /\ pending[s].kind = "upload" =>
                    Get(pending[s].data).file /\ Get(pending[s].data).title # <<>>
             /\ pending[s].kind = "saveJd" =>
                    trim(pending[s].jd.title) # <<>> /\ trim(pending[s].jd.content) # <<>>)
    /\ [][\A file \in BOOLEAN, title \in Texts :
              (handleSubmit(file, title) /\ (~file \/ title = <<>>))
                  => /\ pending' = pending
                     /\ uploadSnackbar' = "Please select a file and enter a name."]_vars

\* C13's case: the upload form was submitted without a file or a name and
\* shows its error, the job-description form holds a title of spaces only,
\* and no call of either form is outstanding.
C13_Witness ==
    /\ uploadSnackbar = "Please select a file and enter a name."
    /\ jobDescription.title = <<" ">> /\ jobDescription.content = <<"x">>
    /\ \A s \in Slots : pending[s].kind \notin {"upload", "saveJd"}

\* C14: when the POST of the chat profile fails, the run that handles the
\* failure leaves resumeData, chatData, lastUpdated and the five storage keys
\* as they were, and shows the error notification on the screen that made
\* the call.
C14_FailedChatSaveChangesNothing ==
    [][\A s \in Slots, rid \in ResumeIds :
           ChatResponse(s, "error", rid)
               => /\ UNCHANGED <<resumeData, chatData, lastUpdated, store>>
                  /\ pending[s].live =>
                         snackbar' = "Error saving profile information. Please try again."]_vars

\* C14's case: a resume was uploaded, the chat was completed, its POST
\* failed: the error is shown and the resume is still the profile source.
C14_Witness ==
    /\ snackbar = "Error saving profile information. Please try again."
    /\ Present(resumeData) /\ ~Present(chatData)
    /\ Present(getItem(store, STORAGE_KEYS.RESUME_DATA))
    /\ ~Present(getItem(store, STORAGE_KEYS.CHAT_DATA))
    /\ emitted # <<>>

\* C15: the failure of one generation action leaves alone the in-flight flags
\* and the outstanding calls of the other four, the profile source, the job
\* description and its id and the draft store; every other action whose
\* button was enabled is still enabled; and the failed call is gone, with no
\* new call in its place.
C15_FailureIsLocal ==
    [][\A s \in Slots :
           (\/ ActionResponse(s, "error")
            \/ InterviewStartResponse(s, "error")
            \/ InterviewPostResponse(s, "error"))
               => /\ \A k \in LoadingKeys \ {pending[s].kind} :
                         actionLoading'[k] = actionLoading[k]
                  /\ \A t \in Slots \ {s} : pending'[t] = pending[t]
                  /\ pending'[s] = NoReq
                  /\ UNCHANGED <<resumeData, chatData, jobDescription, jobDescriptionId, store>>
                  /\ \A b \in Actions \ {pending[s].kind} :
                         ~ButtonDisabled(b) => ~ButtonDisabled(b)']_vars

\* C15's case: optimize has failed while portfolio is in flight: the error of
\* optimize is shown, portfolio is still loading with its call outstanding.
C15_Witness ==
    /\ snackbar = errorMessage("optimize")
    /\ ~actionLoading["optimize"] /\ actionLoading["portfolio"]
    /\ \E s \in Slots : pending[s].kind = "portfolio"
    /\ \A s \in Slots : pending[s].kind # "optimize"
    /\ isProfileComplete

\* C16: a call that times out shows a notification whose text differs from
\* the generic failure text of that call: the generation actions and the
\* job-description save of the Profile screen, and the calls of the
\* interview screen.
C16_TimeoutTextIsSpecific ==
    [][\A s \in Slots :
           pending[s].live
               => /\ (ActionResponse(s, "timeout") \/ InterviewStartResponse(s, "timeout"))
                         => snackbar' # errorMessage(pending[s].kind)
                  /\ SaveJdResponse(s, "timeout", Null)
                         => snackbar' # "Error saving job description. Please try again."
                  /\ MIJdResponse(s, "timeout")
                         => miError' # Some(miErrorMessage("jd", "error"))
                  /\ MIStartResponse(s, "timeout")
                         => miError' # Some(miErrorMessage("start", "error"))
                  /\ MIFetchResponse(s, "timeout")
                         => miError' # Some(miErrorMessage("fetch", "error"))]_vars

\* C17: whatever a list endpoint returns, every history viewer keeps a list
\* as its collection and does not break its render; and when the endpoint
\* returns something that is not a list, the viewer shows an error.
C17_NonListBecomesNotification ==
    /\ [](\A v \in Viewers : IsArray(viewer[v].list) /\ ~viewer[v].broken)
    /\ [][\A d \in ResponseBodies \ ListBodies :
              /\ fetchResumes("ok", d) => viewer'["resumes"].message # ""
              /\ fetchPortfolios("ok", d) => viewer'["portfolios"].message # ""
              /\ fetchHistory("ok", d) => viewer'["history"].message # ""]_vars

\* C18: the text an export downloads is, for a css that is not empty, the
\* html with one stylesheet block holding the css verbatim, put immediately
\* before a closing head tag, or in front when the html has none, and the
\* rest of the html unchanged; for an empty or absent css it is the html.
C18_ExportInjectsStylesheet ==
    Present(downloaded) =>
        LET html == exportData.html
            css == exportData.css
            content == Get(downloaded).content
            block == <<"<style>\n">> \o Get(css) \o <<"\n</style>\n">>
        IN  IF Present(css) /\ Get(css) # <<>>
            THEN \E i \in 0 .. Len(html) :
                     /\ content = SubSeq(html, 1, i) \o block \o SubSeq(html, i + 1, Len(html))
                     /\ IF includes(html, "</head>")
                        THEN i < Len(html) /\ html[i + 1] = "</head>"
                        ELSE i = 0
            ELSE content = html

\* C19: for every skills answer, the parsed list is, in the order of the
\* answer, the pieces between its commas and newlines with the white space
\* around them removed, without the pieces that are then empty; no element
\* of the list is empty or starts or ends with white space.
C19_SkillsParse ==
    Present(parsed) =>
        LET list == Get(parsed)
            D == {",", "\n"}
            n == Cardinality(SeparatorsOf(answer, D)) + 1
            kept == {k \in 1 .. n : Stripped(Piece(answer, D, k)) # <<>>}
        IN  /\ Len(list) = Cardinality(kept)
            /\ \A k \in kept :
                   list[Cardinality({j \in kept : j <= k})] = Stripped(Piece(answer, D, k))
            /\ \A i \in 1 .. Len(list) :
                   list[i] # <<>> /\ ~IsSpace(list[i][1]) /\ ~IsSpace(list[i][Len(list[i])])

\* C19's case: the example answer "Python, Go\nRust" has been parsed.
C19_Witness ==
    /\ answer = ExampleSkills
    /\ parsed = Some(<<<<"P", "y", "t", "h", "o", "n">>, <<"G", "o">>, <<"R", "u", "s", "t">>>>)

\* C20: every optimize, portfolio, cover-letter and career-guide request
\* carries the user id, the saved job-description id, and as its resume id
\* the id of the profile source: of the uploaded resume when the source is a
\* resume, of the chat record when the source is the chat.
C20_RequestCarriesSourceId ==
    [][\A a \in Actions \ {"interview"} :
           (ClickAction(a) /\ pending' # pending)
               => LET d == Get(pending'[FirstFree].data) IN
                  /\ d.user_id = "userId"
                  /\ Present(jobDescriptionId) /\ d.job_description_id = jobDescriptionId
                  /\ \/ Present(resumeData) /\ d.resume_id = Some(Get(resumeData).resumeId)
                     \/ Present(chatData) /\ d.resume_id = Some(Get(chatData).resumeId)]_vars

\* C21: in the interview action the session is started first, then its id is
\* published, and only then does the navigation to the interview screen
\* happen.
C21_PublishBeforeNavigate ==
    steps # <<>> => steps = <<"started", "published", "navigated">>

\* C22: the chat intake is terminal once all N questions have been answered:
\* no further answer is accepted, so never more than N answers are held and
\* the record is never emitted a second time; and the index stays within
\* 0 .. N.
C22_TerminalAfterLastAnswer ==
    /\ currentQuestion \in 0 .. Len(questions)
    /\ Len(UserAnswers(messages)) <= Len(questions)
    /\ Len(emitted) <= 1

\* C23: the POST /api/resumes/chat issued on chat completion carries, as its
\* content, the structured record the chat emitted (the record that
\* onChatComplete was called with).
C23_BodyCarriesRecord ==
    \A s \in Slots :
        pending[s].kind = "chat" => Get(pending[s].body).content = pending[s].data

\* C24: while the backend call of a triggered generation action is
\* outstanding, and the Profile instance that triggered it is still on
\* screen, that action's in-flight flag is true.
C24_FlagWhileInFlight ==
    \A s \in Slots :
        (pending[s].kind \in Actions /\ pending[s].live)
            => actionLoading[pending[s].kind]

\* C25: clearing the job description empties the title and the content in
\* memory and makes the id absent, removes profile_job_description and
\* profile_job_description_id from the store, issues no backend call (the
\* outstanding calls and what the backend holds are as before), leaves
\* resumeData, chatData and lastUpdated (and their stored copies) alone, and
\* makes the completeness predicate false.
C25_ClearJobDescription ==
    [][handleClearJobDescription
         => /\ jobDescription' = [title |-> <<>>, content |-> <<>>]
            /\ jobDescriptionId' = Null
            /\ getItem(store', "profile_job_description") = Null
            /\ getItem(store', "profile_job_description_id") = Null
            /\ \A key \in {"profile_resume_data", "profile_chat_data", "profile_last_updated"} :
                   getItem(store', key) = getItem(store, key)
            /\ UNCHANGED <<pending, srvJd, srvResume>>
            /\ UNCHANGED <<resumeData, chatData, lastUpdated>>
            /\ ~isProfileComplete']_vars

\* C25's case: a complete profile whose job description has just been
\* cleared: the source is still there, the backend still holds the saved
\* job description, and the screen and the store hold none.
C25_Witness ==
    /\ mounted
    /\ snackbar = "Job description cleared."
    /\ Present(resumeData) /\ Present(lastUpdated)
    /\ Present(srvJd)
    /\ jobDescription = EmptyJobDescription /\ jobDescriptionId = Null
    /\ getItem(store, STORAGE_KEYS.JOB_DESCRIPTION) = Null
    /\ getItem(store, STORAGE_KEYS.JOB_DESCRIPTION_ID) = Null
    /\ ~isProfileComplete

\* C26: in the chat the backend drives, once a reply to a start call or to an
\* answer call has come without a next question or with the status
\* completed or processing, the chat is complete, the parent has been told
\* to refresh exactly once, and no further call is sent.
C26_EndingReplyIsTerminal ==
    ended => (chatComplete /\ refreshes = 1 /\ pcCall = Null)

\* C27: the response of a save that was issued before the job description
\* was cleared, arriving after the clear, does not bring the id back or make
\* the profile complete. (The job description is empty and nothing was typed
\* since the clear, whose notification still shows: every save of this
\* Profile instance still outstanding was issued before the clear.)
C27_ClearOutlastsEarlierSave ==
    [][\A s \in Slots : \A j \in JdIds :
           (/\ mounted /\ pending[s].live
            /\ snackbar = "Job description cleared."
            /\ jobDescription = EmptyJobDescription /\ jobDescriptionId = Null
            /\ draft = Null
            /\ SaveJdResponse(s, "ok", Some(j)))
               => (jobDescriptionId' = Null /\ ~isProfileComplete')]_vars

\* C28: whenever the Profile screen is on screen with no operation in
\* progress, the draft store mirrors memory: what a load of
\* profile_resume_data, profile_chat_data, profile_job_description and
\* profile_job_description_id yields is the resumeData, the chatData, the
\* jobDescription and the jobDescriptionId in memory.
C28_StoreMirrorsMemory ==
    (mounted /\ ~crashed /\ \A s \in Slots : pending[s].kind = "none")
        => /\ load(STORAGE_KEYS.RESUME_DATA) = resumeData
           /\ load(STORAGE_KEYS.CHAT_DATA) = chatData
           /\ load(STORAGE_KEYS.JOB_DESCRIPTION) = jobDescription
           /\ load(STORAGE_KEYS.JOB_DESCRIPTION_ID) = jobDescriptionId

\* C29: within one interview session the index of the question shown stays
\* within 0 .. len(questions), and the question indices the backend accepts
\* an answer for are strictly increasing: each index, the last included, is
\* submitted with success at most once.
C29_AnswersInOrder ==
    /\ currentQuestionIndex \in 0 .. NumQuestions
    /\ \A i, j \in 1 .. Len(accepted) : i < j => accepted[i] < accepted[j]

\* C30: a mount sync that fetched nothing leaves the last-updated time
\* alone: when the backend holds no resume and no job description, the end of
\* fetchLatestData changes neither lastUpdated nor profile_last_updated.
C30_EmptySyncKeepsLastUpdated ==
    [][\A s \in Slots :
           (/\ srvResume = Null /\ srvJd = Null
            /\ FetchJdResponse(s, "ok"))
               => /\ lastUpdated' = lastUpdated
                  /\ getItem(store', STORAGE_KEYS.LAST_UPDATED)
                         = getItem(store, STORAGE_KEYS.LAST_UPDATED)]_vars

====
